---- MODULE Spec2Model ----
(***************************************************************************)
(* Complaint analysis service (src/llm_service/main.py): JSON extraction,  *)
(* schema normalisation, mandatory-slot enforcement, the rule-based        *)
(* fallback analyser and the retry controller of the /analyze endpoint.    *)
(*                                                                         *)
(* Text is a sequence of Unicode code points, so that strip(), lower(),    *)
(* upper(), substring tests and the regular expressions are computed.      *)
(* A Python/JSON value is a record [t, s, n, keys, items]:                 *)
(*   t = "null" | "bool" | "int" | "str" | "list" | "dict"                 *)
(*   s = the text of a str; n = the number of an int (0/1 for a bool);     *)
(*   items = the elements of a list, or the values of a dict in insertion  *)
(*   order, with keys = the dict's keys (texts) in the same order.         *)
(***************************************************************************)
EXTENDS Integers, Sequences, FiniteSets, TLC

\* ------------------------------------------------------ text constants
\* Each text of the program is the sequence of its code points; the comment
\* above a definition gives the text.

\* "need_clarification"
K_need_clarification ==
    <<110, 101, 101, 100, 95, 99, 108, 97, 114, 105, 102, 105, 99, 97, 116, 105, 111, 110>>
\* "missing_slots"
K_missing_slots == <<109, 105, 115, 115, 105, 110, 103, 95, 115, 108, 111, 116, 115>>
\* "priority"
K_priority == <<112, 114, 105, 111, 114, 105, 116, 121>>
\* "tuples"
K_tuples == <<116, 117, 112, 108, 101, 115>>
\* "aspects_count"
K_aspects_count == <<97, 115, 112, 101, 99, 116, 115, 95, 99, 111, 117, 110, 116>>
\* "recommendation_kk"
K_recommendation_kk ==
    <<114, 101, 99, 111, 109, 109, 101, 110, 100, 97, 116, 105, 111, 110, 95, 107, 107>>
\* "recommendation_ru"
K_recommendation_ru ==
    <<114, 101, 99, 111, 109, 109, 101, 110, 100, 97, 116, 105, 111, 110, 95, 114, 117>>
\* "language"
K_language == <<108, 97, 110, 103, 117, 97, 103, 101>>
\* "extracted_fields"
K_extracted_fields ==
    <<101, 120, 116, 114, 97, 99, 116, 101, 100, 95, 102, 105, 101, 108, 100, 115>>
\* "clarifying_question_kk"
K_clarifying_question_kk ==
    <<99, 108, 97, 114, 105, 102, 121, 105, 110, 103, 95, 113, 117, 101, 115, 116, 105, 111,
    110, 95, 107, 107>>
\* "clarifying_question_ru"
K_clarifying_question_ru ==
    <<99, 108, 97, 114, 105, 102, 121, 105, 110, 103, 95, 113, 117, 101, 115, 116, 105, 111,
    110, 95, 114, 117>>
\* "objects"
K_objects == <<111, 98, 106, 101, 99, 116, 115>>
\* "time"
K_time == <<116, 105, 109, 101>>
\* "place"
K_place == <<112, 108, 97, 99, 101>>
\* "aspects"
K_aspects == <<97, 115, 112, 101, 99, 116, 115>>
\* "type"
K_type == <<116, 121, 112, 101>>
\* "value"
K_value == <<118, 97, 108, 117, 101>>
\* "kind"
K_kind == <<107, 105, 110, 100>>
\* "route_numbers"
K_route_numbers == <<114, 111, 117, 116, 101, 95, 110, 117, 109, 98, 101, 114, 115>>
\* "bus_plates"
K_bus_plates == <<98, 117, 115, 95, 112, 108, 97, 116, 101, 115>>
\* "places"
K_places == <<112, 108, 97, 99, 101, 115>>
\* "reported_time"
K_reported_time == <<114, 101, 112, 111, 114, 116, 101, 100, 95, 116, 105, 109, 101>>
\* "location"
K_location == <<108, 111, 99, 97, 116, 105, 111, 110>>
\* "complaint"
K_complaint == <<99, 111, 109, 112, 108, 97, 105, 110, 116>>
\* "known_fields"
K_known_fields == <<107, 110, 111, 119, 110, 95, 102, 105, 101, 108, 100, 115>>
\* "submission_time_iso"
K_submission_time_iso ==
    <<115, 117, 98, 109, 105, 115, 115, 105, 111, 110, 95, 116, 105, 109, 101, 95, 105, 115,
    111>>
\* "low"
S_low == <<108, 111, 119>>
\* "medium"
S_medium == <<109, 101, 100, 105, 117, 109>>
\* "high"
S_high == <<104, 105, 103, 104>>
\* "critical"
S_critical == <<99, 114, 105, 116, 105, 99, 97, 108>>
\* "punctuality"
S_punctuality == <<112, 117, 110, 99, 116, 117, 97, 108, 105, 116, 121>>
\* "crowding"
S_crowding == <<99, 114, 111, 119, 100, 105, 110, 103>>
\* "safety"
S_safety == <<115, 97, 102, 101, 116, 121>>
\* "staff"
S_staff == <<115, 116, 97, 102, 102>>
\* "condition"
S_condition == <<99, 111, 110, 100, 105, 116, 105, 111, 110>>
\* "payment"
S_payment == <<112, 97, 121, 109, 101, 110, 116>>
\* "other"
S_other == <<111, 116, 104, 101, 114>>
\* "route"
S_route == <<114, 111, 117, 116, 101>>
\* "bus_plate"
S_bus_plate == <<98, 117, 115, 95, 112, 108, 97, 116, 101>>
\* "stop"
S_stop == <<115, 116, 111, 112>>
\* "street"
S_street == <<115, 116, 114, 101, 101, 116>>
\* "crossroad"
S_crossroad == <<99, 114, 111, 115, 115, 114, 111, 97, 100>>
\* "kk"
S_kk == <<107, 107>>
\* "ru"
S_ru == <<114, 117>>
\* "unspecified"
S_unspecified == <<117, 110, 115, 112, 101, 99, 105, 102, 105, 101, 100>>
\* "unknown"
S_unknown == <<117, 110, 107, 110, 111, 119, 110>>
\* "submission_time"
S_submission_time == <<115, 117, 98, 109, 105, 115, 115, 105, 111, 110, 95, 116, 105, 109, 101>>
\* "True"
S_True == <<84, 114, 117, 101>>
\* "False"
S_False == <<70, 97, 108, 115, 101>>
\* "None"
S_None == <<78, 111, 110, 101>>

\* "Маршрут нөмірін немесе автобустың мемлекеттік нөмірін көрсетіңіз. Егер ол мәтінде болмаған болса, шағымды осы дерекпен толықтырыңыз."
T_route_numbers_kk ==
    <<1052, 1072, 1088, 1096, 1088, 1091, 1090, 32, 1085, 1257, 1084, 1110, 1088, 1110, 1085,
    32, 1085, 1077, 1084, 1077, 1089, 1077, 32, 1072, 1074, 1090, 1086, 1073, 1091, 1089, 1090,
    1099, 1187, 32, 1084, 1077, 1084, 1083, 1077, 1082, 1077, 1090, 1090, 1110, 1082, 32, 1085,
    1257, 1084, 1110, 1088, 1110, 1085, 32, 1082, 1257, 1088, 1089, 1077, 1090, 1110, 1187,
    1110, 1079, 46, 32, 1045, 1075, 1077, 1088, 32, 1086, 1083, 32, 1084, 1241, 1090, 1110,
    1085, 1076, 1077, 32, 1073, 1086, 1083, 1084, 1072, 1171, 1072, 1085, 32, 1073, 1086, 1083,
    1089, 1072, 44, 32, 1096, 1072, 1171, 1099, 1084, 1076, 1099, 32, 1086, 1089, 1099, 32,
    1076, 1077, 1088, 1077, 1082, 1087, 1077, 1085, 32, 1090, 1086, 1083, 1099, 1179, 1090,
    1099, 1088, 1099, 1187, 1099, 1079, 46>>
\* "Укажите номер маршрута или госномер автобуса. Если его не было, отправьте краткое уточнение с этим номером."
T_route_numbers_ru ==
    <<1059, 1082, 1072, 1078, 1080, 1090, 1077, 32, 1085, 1086, 1084, 1077, 1088, 32, 1084,
    1072, 1088, 1096, 1088, 1091, 1090, 1072, 32, 1080, 1083, 1080, 32, 1075, 1086, 1089, 1085,
    1086, 1084, 1077, 1088, 32, 1072, 1074, 1090, 1086, 1073, 1091, 1089, 1072, 46, 32, 1045,
    1089, 1083, 1080, 32, 1077, 1075, 1086, 32, 1085, 1077, 32, 1073, 1099, 1083, 1086, 44, 32,
    1086, 1090, 1087, 1088, 1072, 1074, 1100, 1090, 1077, 32, 1082, 1088, 1072, 1090, 1082,
    1086, 1077, 32, 1091, 1090, 1086, 1095, 1085, 1077, 1085, 1080, 1077, 32, 1089, 32, 1101,
    1090, 1080, 1084, 32, 1085, 1086, 1084, 1077, 1088, 1086, 1084, 46>>
\* "Оқиға болған орынды (аялдама, көше атауы) нақты жазыңыз және шағымыңызға осы мәліметті қосып қайта жіберіңіз."
T_places_kk ==
    <<1054, 1179, 1080, 1171, 1072, 32, 1073, 1086, 1083, 1171, 1072, 1085, 32, 1086, 1088,
    1099, 1085, 1076, 1099, 32, 40, 1072, 1103, 1083, 1076, 1072, 1084, 1072, 44, 32, 1082,
    1257, 1096, 1077, 32, 1072, 1090, 1072, 1091, 1099, 41, 32, 1085, 1072, 1179, 1090, 1099,
    32, 1078, 1072, 1079, 1099, 1187, 1099, 1079, 32, 1078, 1241, 1085, 1077, 32, 1096, 1072,
    1171, 1099, 1084, 1099, 1187, 1099, 1079, 1171, 1072, 32, 1086, 1089, 1099, 32, 1084, 1241,
    1083, 1110, 1084, 1077, 1090, 1090, 1110, 32, 1179, 1086, 1089, 1099, 1087, 32, 1179, 1072,
    1081, 1090, 1072, 32, 1078, 1110, 1073, 1077, 1088, 1110, 1187, 1110, 1079, 46>>
\* "Укажите точное место происшествия (остановка, улица). Добавьте это уточнение к жалобе и отправьте снова."
T_places_ru ==
    <<1059, 1082, 1072, 1078, 1080, 1090, 1077, 32, 1090, 1086, 1095, 1085, 1086, 1077, 32,
    1084, 1077, 1089, 1090, 1086, 32, 1087, 1088, 1086, 1080, 1089, 1096, 1077, 1089, 1090,
    1074, 1080, 1103, 32, 40, 1086, 1089, 1090, 1072, 1085, 1086, 1074, 1082, 1072, 44, 32,
    1091, 1083, 1080, 1094, 1072, 41, 46, 32, 1044, 1086, 1073, 1072, 1074, 1100, 1090, 1077,
    32, 1101, 1090, 1086, 32, 1091, 1090, 1086, 1095, 1085, 1077, 1085, 1080, 1077, 32, 1082,
    32, 1078, 1072, 1083, 1086, 1073, 1077, 32, 1080, 32, 1086, 1090, 1087, 1088, 1072, 1074,
    1100, 1090, 1077, 32, 1089, 1085, 1086, 1074, 1072, 46>>
\* "Оқиға болған күн мен уақытты көрсетіңіз (мысалы, 2024-04-18 08:30). Осы мәліметпен шағымды қайта жіберіңіз."
T_reported_time_kk ==
    <<1054, 1179, 1080, 1171, 1072, 32, 1073, 1086, 1083, 1171, 1072, 1085, 32, 1082, 1199,
    1085, 32, 1084, 1077, 1085, 32, 1091, 1072, 1179, 1099, 1090, 1090, 1099, 32, 1082, 1257,
    1088, 1089, 1077, 1090, 1110, 1187, 1110, 1079, 32, 40, 1084, 1099, 1089, 1072, 1083, 1099,
    44, 32, 50, 48, 50, 52, 45, 48, 52, 45, 49, 56, 32, 48, 56, 58, 51, 48, 41, 46, 32, 1054,
    1089, 1099, 32, 1084, 1241, 1083, 1110, 1084, 1077, 1090, 1087, 1077, 1085, 32, 1096, 1072,
    1171, 1099, 1084, 1076, 1099, 32, 1179, 1072, 1081, 1090, 1072, 32, 1078, 1110, 1073, 1077,
    1088, 1110, 1187, 1110, 1079, 46>>
\* "Укажите дату и время происшествия (например, 2024-04-18 08:30). Добавьте это уточнение и отправьте жалобу повторно."
T_reported_time_ru ==
    <<1059, 1082, 1072, 1078, 1080, 1090, 1077, 32, 1076, 1072, 1090, 1091, 32, 1080, 32, 1074,
    1088, 1077, 1084, 1103, 32, 1087, 1088, 1086, 1080, 1089, 1096, 1077, 1089, 1090, 1074,
    1080, 1103, 32, 40, 1085, 1072, 1087, 1088, 1080, 1084, 1077, 1088, 44, 32, 50, 48, 50, 52,
    45, 48, 52, 45, 49, 56, 32, 48, 56, 58, 51, 48, 41, 46, 32, 1044, 1086, 1073, 1072, 1074,
    1100, 1090, 1077, 32, 1101, 1090, 1086, 32, 1091, 1090, 1086, 1095, 1085, 1077, 1085, 1080,
    1077, 32, 1080, 32, 1086, 1090, 1087, 1088, 1072, 1074, 1100, 1090, 1077, 32, 1078, 1072,
    1083, 1086, 1073, 1091, 32, 1087, 1086, 1074, 1090, 1086, 1088, 1085, 1086, 46>>
\* "Жауапты қызметтерге дереу хабарласып, қауіпсіздікті қамтамасыз ету қажет."
R_critical_kk ==
    <<1046, 1072, 1091, 1072, 1087, 1090, 1099, 32, 1179, 1099, 1079, 1084, 1077, 1090, 1090,
    1077, 1088, 1075, 1077, 32, 1076, 1077, 1088, 1077, 1091, 32, 1093, 1072, 1073, 1072, 1088,
    1083, 1072, 1089, 1099, 1087, 44, 32, 1179, 1072, 1091, 1110, 1087, 1089, 1110, 1079, 1076,
    1110, 1082, 1090, 1110, 32, 1179, 1072, 1084, 1090, 1072, 1084, 1072, 1089, 1099, 1079, 32,
    1077, 1090, 1091, 32, 1179, 1072, 1078, 1077, 1090, 46>>
\* "Маршрут операторы қадағалауды күшейтіп, жүргізушіге ескерту жасауы тиіс."
R_high_kk ==
    <<1052, 1072, 1088, 1096, 1088, 1091, 1090, 32, 1086, 1087, 1077, 1088, 1072, 1090, 1086,
    1088, 1099, 32, 1179, 1072, 1076, 1072, 1171, 1072, 1083, 1072, 1091, 1076, 1099, 32, 1082,
    1199, 1096, 1077, 1081, 1090, 1110, 1087, 44, 32, 1078, 1199, 1088, 1075, 1110, 1079, 1091,
    1096, 1110, 1075, 1077, 32, 1077, 1089, 1082, 1077, 1088, 1090, 1091, 32, 1078, 1072, 1089,
    1072, 1091, 1099, 32, 1090, 1080, 1110, 1089, 46>>
\* "Оқиғаға талдау жүргізіп, уақытылы қызмет көрсету үшін қосымша бақылау орнатыңыз."
R_medium_kk ==
    <<1054, 1179, 1080, 1171, 1072, 1171, 1072, 32, 1090, 1072, 1083, 1076, 1072, 1091, 32,
    1078, 1199, 1088, 1075, 1110, 1079, 1110, 1087, 44, 32, 1091, 1072, 1179, 1099, 1090, 1099,
    1083, 1099, 32, 1179, 1099, 1079, 1084, 1077, 1090, 32, 1082, 1257, 1088, 1089, 1077, 1090,
    1091, 32, 1199, 1096, 1110, 1085, 32, 1179, 1086, 1089, 1099, 1084, 1096, 1072, 32, 1073,
    1072, 1179, 1099, 1083, 1072, 1091, 32, 1086, 1088, 1085, 1072, 1090, 1099, 1187, 1099,
    1079, 46>>
\* "Өтініш журналға жазылды, қайталанса — маршрут операторы қарастырады."
R_low_kk ==
    <<1256, 1090, 1110, 1085, 1110, 1096, 32, 1078, 1091, 1088, 1085, 1072, 1083, 1171, 1072,
    32, 1078, 1072, 1079, 1099, 1083, 1076, 1099, 44, 32, 1179, 1072, 1081, 1090, 1072, 1083,
    1072, 1085, 1089, 1072, 32, 8212, 32, 1084, 1072, 1088, 1096, 1088, 1091, 1090, 32, 1086,
    1087, 1077, 1088, 1072, 1090, 1086, 1088, 1099, 32, 1179, 1072, 1088, 1072, 1089, 1090,
    1099, 1088, 1072, 1076, 1099, 46>>
\* "Нужно срочно передать информацию экстренным службам и обеспечить безопасность."
R_critical_ru ==
    <<1053, 1091, 1078, 1085, 1086, 32, 1089, 1088, 1086, 1095, 1085, 1086, 32, 1087, 1077,
    1088, 1077, 1076, 1072, 1090, 1100, 32, 1080, 1085, 1092, 1086, 1088, 1084, 1072, 1094,
    1080, 1102, 32, 1101, 1082, 1089, 1090, 1088, 1077, 1085, 1085, 1099, 1084, 32, 1089, 1083,
    1091, 1078, 1073, 1072, 1084, 32, 1080, 32, 1086, 1073, 1077, 1089, 1087, 1077, 1095, 1080,
    1090, 1100, 32, 1073, 1077, 1079, 1086, 1087, 1072, 1089, 1085, 1086, 1089, 1090, 1100, 46>>
\* "Рекомендуется провести проверку маршрута и уведомить водителя о нарушении."
R_high_ru ==
    <<1056, 1077, 1082, 1086, 1084, 1077, 1085, 1076, 1091, 1077, 1090, 1089, 1103, 32, 1087,
    1088, 1086, 1074, 1077, 1089, 1090, 1080, 32, 1087, 1088, 1086, 1074, 1077, 1088, 1082,
    1091, 32, 1084, 1072, 1088, 1096, 1088, 1091, 1090, 1072, 32, 1080, 32, 1091, 1074, 1077,
    1076, 1086, 1084, 1080, 1090, 1100, 32, 1074, 1086, 1076, 1080, 1090, 1077, 1083, 1103, 32,
    1086, 32, 1085, 1072, 1088, 1091, 1096, 1077, 1085, 1080, 1080, 46>>
\* "Следует усилить контроль за расписанием и условиями поездки на данном маршруте."
R_medium_ru ==
    <<1057, 1083, 1077, 1076, 1091, 1077, 1090, 32, 1091, 1089, 1080, 1083, 1080, 1090, 1100,
    32, 1082, 1086, 1085, 1090, 1088, 1086, 1083, 1100, 32, 1079, 1072, 32, 1088, 1072, 1089,
    1087, 1080, 1089, 1072, 1085, 1080, 1077, 1084, 32, 1080, 32, 1091, 1089, 1083, 1086, 1074,
    1080, 1103, 1084, 1080, 32, 1087, 1086, 1077, 1079, 1076, 1082, 1080, 32, 1085, 1072, 32,
    1076, 1072, 1085, 1085, 1086, 1084, 32, 1084, 1072, 1088, 1096, 1088, 1091, 1090, 1077, 46>>
\* "Обращение зафиксировано, при повторении ситуация будет передана оператору маршрута."
R_low_ru ==
    <<1054, 1073, 1088, 1072, 1097, 1077, 1085, 1080, 1077, 32, 1079, 1072, 1092, 1080, 1082,
    1089, 1080, 1088, 1086, 1074, 1072, 1085, 1086, 44, 32, 1087, 1088, 1080, 32, 1087, 1086,
    1074, 1090, 1086, 1088, 1077, 1085, 1080, 1080, 32, 1089, 1080, 1090, 1091, 1072, 1094,
    1080, 1103, 32, 1073, 1091, 1076, 1077, 1090, 32, 1087, 1077, 1088, 1077, 1076, 1072, 1085,
    1072, 32, 1086, 1087, 1077, 1088, 1072, 1090, 1086, 1088, 1091, 32, 1084, 1072, 1088, 1096,
    1088, 1091, 1090, 1072, 46>>

\* ["ә", "ө", "ү", "ұ", "қ", "ғ", "ң", "һ", "і"]
kazakh_letters ==
    << <<1241>>, <<1257>>, <<1199>>, <<1201>>, <<1179>>, <<1171>>, <<1187>>, <<1211>>, <<1110>>
    >>
\* ["авар", "опас", "пожар", "дтп", "угроза", "қатты соқты"]
critical_keywords ==
    << <<1072, 1074, 1072, 1088>>, <<1086, 1087, 1072, 1089>>, <<1087, 1086, 1078, 1072, 1088>>,
    <<1076, 1090, 1087>>, <<1091, 1075, 1088, 1086, 1079, 1072>>, <<1179, 1072, 1090, 1090,
    1099, 32, 1089, 1086, 1179, 1090, 1099>> >>
\* ["мас", "драка", "не работает тормоз", "не остановился", "қатер"]
high_keywords ==
    << <<1084, 1072, 1089>>, <<1076, 1088, 1072, 1082, 1072>>, <<1085, 1077, 32, 1088, 1072,
    1073, 1086, 1090, 1072, 1077, 1090, 32, 1090, 1086, 1088, 1084, 1086, 1079>>, <<1085, 1077,
    32, 1086, 1089, 1090, 1072, 1085, 1086, 1074, 1080, 1083, 1089, 1103>>, <<1179, 1072, 1090,
    1077, 1088>> >>
\* ["опозд", "задерж", "жарық жоқ", "гряз", "қатты суық", "кондиц"]
medium_keywords ==
    << <<1086, 1087, 1086, 1079, 1076>>, <<1079, 1072, 1076, 1077, 1088, 1078>>, <<1078, 1072,
    1088, 1099, 1179, 32, 1078, 1086, 1179>>, <<1075, 1088, 1103, 1079>>, <<1179, 1072, 1090,
    1090, 1099, 32, 1089, 1091, 1099, 1179>>, <<1082, 1086, 1085, 1076, 1080, 1094>> >>
\* ["опозд", "опазд", "задерж", "кешікті"]
punctuality_words ==
    << <<1086, 1087, 1086, 1079, 1076>>, <<1086, 1087, 1072, 1079, 1076>>, <<1079, 1072, 1076,
    1077, 1088, 1078>>, <<1082, 1077, 1096, 1110, 1082, 1090, 1110>> >>
\* ["переполн", "толп", "адам көп"]
crowding_words ==
    << <<1087, 1077, 1088, 1077, 1087, 1086, 1083, 1085>>, <<1090, 1086, 1083, 1087>>, <<1072,
    1076, 1072, 1084, 32, 1082, 1257, 1087>> >>
\* ["опас", "драка", "қорқынышты", "авар"]
safety_words ==
    << <<1086, 1087, 1072, 1089>>, <<1076, 1088, 1072, 1082, 1072>>, <<1179, 1086, 1088, 1179,
    1099, 1085, 1099, 1096, 1090, 1099>>, <<1072, 1074, 1072, 1088>> >>
\* ["водител", "кондуктор", "жүргізуші", "хам"]
staff_words ==
    << <<1074, 1086, 1076, 1080, 1090, 1077, 1083>>, <<1082, 1086, 1085, 1076, 1091, 1082, 1090,
    1086, 1088>>, <<1078, 1199, 1088, 1075, 1110, 1079, 1091, 1096, 1110>>, <<1093, 1072, 1084>>
    >>
\* ["гряз", "грязн", "сын", "жарамсыз", "жыртылған", "холод", "ыстық"]
condition_words ==
    << <<1075, 1088, 1103, 1079>>, <<1075, 1088, 1103, 1079, 1085>>, <<1089, 1099, 1085>>,
    <<1078, 1072, 1088, 1072, 1084, 1089, 1099, 1079>>, <<1078, 1099, 1088, 1090, 1099, 1083,
    1171, 1072, 1085>>, <<1093, 1086, 1083, 1086, 1076>>, <<1099, 1089, 1090, 1099, 1179>> >>
\* ["оплат", "валид", "касса", "төле"]
payment_words ==
    << <<1086, 1087, 1083, 1072, 1090>>, <<1074, 1072, 1083, 1080, 1076>>, <<1082, 1072, 1089,
    1089, 1072>>, <<1090, 1257, 1083, 1077>> >>
\* ["остановк", "аялдама", "станция", "вокзал"]
stop_keywords ==
    << <<1086, 1089, 1090, 1072, 1085, 1086, 1074, 1082>>, <<1072, 1103, 1083, 1076, 1072, 1084,
    1072>>, <<1089, 1090, 1072, 1085, 1094, 1080, 1103>>, <<1074, 1086, 1082, 1079, 1072, 1083>>
    >>


\* ------------------------------------------------------------------ text

\* Code points for which str.isspace() holds (below U+0100).
WhitespaceChars == {9, 10, 11, 12, 13, 28, 29, 30, 31, 32, 133, 160}

RECURSIVE LStrip(_)
LStrip(s) ==
    IF s = <<>> THEN <<>>
    ELSE IF Head(s) \in WhitespaceChars THEN LStrip(Tail(s))
    ELSE s

RECURSIVE RStrip(_)
RStrip(s) ==
    IF s = <<>> THEN <<>>
    ELSE IF s[Len(s)] \in WhitespaceChars THEN RStrip(SubSeq(s, 1, Len(s) - 1))
    ELSE s

\* str.strip()
Strip(s) == RStrip(LStrip(s))

\* str.lower() of one character, over ASCII and the Cyrillic block
\* U+0400..U+052F (the Kazakh letters among them).
LowerChar(c) ==
    IF c >= 65 /\ c <= 90 THEN c + 32
    ELSE IF c >= 1040 /\ c <= 1071 THEN c + 32
    ELSE IF c >= 1024 /\ c <= 1039 THEN c + 80
    ELSE IF c >= 1120 /\ c <= 1153 /\ c % 2 = 0 THEN c + 1
    ELSE IF c >= 1162 /\ c <= 1215 /\ c % 2 = 0 THEN c + 1
    ELSE IF c = 1216 THEN 1231
    ELSE IF c >= 1217 /\ c <= 1230 /\ c % 2 = 1 THEN c + 1
    ELSE IF c >= 1232 /\ c <= 1327 /\ c % 2 = 0 THEN c + 1
    ELSE c

\* str.upper() of one character (the inverse table).
UpperChar(c) ==
    IF c >= 97 /\ c <= 122 THEN c - 32
    ELSE IF c >= 1072 /\ c <= 1103 THEN c - 32
    ELSE IF c >= 1104 /\ c <= 1119 THEN c - 80
    ELSE IF c >= 1120 /\ c <= 1153 /\ c % 2 = 1 THEN c - 1
    ELSE IF c >= 1162 /\ c <= 1215 /\ c % 2 = 1 THEN c - 1
    ELSE IF c = 1231 THEN 1216
    ELSE IF c >= 1217 /\ c <= 1230 /\ c % 2 = 0 THEN c - 1
    ELSE IF c >= 1232 /\ c <= 1327 /\ c % 2 = 1 THEN c - 1
    ELSE c

Lower(s) == [i \in 1..Len(s) |-> LowerChar(s[i])]
Upper(s) == [i \in 1..Len(s) |-> UpperChar(s[i])]

\* word in text
Contains(text, word) ==
    \E i \in 0..(Len(text) - Len(word)) :
        \A j \in 1..Len(word) : text[i + j] = word[j]

\* any(word in text for word in words)
AnyIn(words, text) == \E k \in 1..Len(words) : Contains(text, words[k])

\* The order of Python's str comparison (by code point, a prefix first).
RECURSIVE StrLess(_, _)
StrLess(a, b) ==
    IF b = <<>> THEN FALSE
    ELSE IF a = <<>> THEN TRUE
    ELSE IF Head(a) # Head(b) THEN Head(a) < Head(b)
    ELSE StrLess(Tail(a), Tail(b))

\* sorted(set_of_str)
RECURSIVE Sorted(_)
Sorted(S) ==
    IF S = {} THEN <<>>
    ELSE LET m == CHOOSE x \in S : \A y \in S \ {x} : StrLess(x, y)
         IN <<m>> \o Sorted(S \ {m})

\* The elements of a sequence, as a set.
Range(seq) == {seq[i] : i \in 1..Len(seq)}

\* str(n) for an integer n.
RECURSIVE Digits(_)
Digits(n) == IF n < 10 THEN <<48 + n>> ELSE Digits(n \div 10) \o <<48 + (n % 10)>>
IntText(n) == IF n < 0 THEN <<45>> \o Digits(0 - n) ELSE Digits(n)

\* ---------------------------------------------------------------- values

Null == [t |-> "null", s |-> <<>>, n |-> 0, keys |-> <<>>, items |-> <<>>]
Str(text) == [t |-> "str", s |-> text, n |-> 0, keys |-> <<>>, items |-> <<>>]
Num(k) == [t |-> "int", s |-> <<>>, n |-> k, keys |-> <<>>, items |-> <<>>]
Bool(b) ==
    [t |-> "bool", s |-> <<>>, n |-> IF b THEN 1 ELSE 0, keys |-> <<>>, items |-> <<>>]
List(xs) == [t |-> "list", s |-> <<>>, n |-> 0, keys |-> <<>>, items |-> xs]
Dict(ks, vs) == [t |-> "dict", s |-> <<>>, n |-> 0, keys |-> ks, items |-> vs]
EmptyDict == Dict(<<>>, <<>>)

IsNone(v) == v.t = "null"
IsStr(v) == v.t = "str"
IsList(v) == v.t = "list"
IsDict(v) == v.t = "dict"
\* isinstance(v, int): bool is a subclass of int.
IsInt(v) == v.t \in {"int", "bool"}

\* bool(v)
Truthy(v) ==
    CASE v.t = "null" -> FALSE
      [] v.t \in {"bool", "int"} -> v.n # 0
      [] v.t = "str" -> v.s # <<>>
      [] v.t = "list" -> v.items # <<>>
      [] v.t = "dict" -> v.keys # <<>>

\* a or b
Or(a, b) == IF Truthy(a) THEN a ELSE b

HasKey(d, k) == \E i \in 1..Len(d.keys) : d.keys[i] = k

\* d.get(k): None when the key is absent.
Get(d, k) ==
    IF HasKey(d, k) THEN d.items[CHOOSE i \in 1..Len(d.keys) : d.keys[i] = k] ELSE Null

\* d[k] = v: an existing key keeps its position, a new one is appended.
Put(d, k, v) ==
    IF HasKey(d, k)
    THEN Dict(d.keys, [i \in 1..Len(d.keys) |-> IF d.keys[i] = k THEN v ELSE d.items[i]])
    ELSE Dict(Append(d.keys, k), Append(d.items, v))

StrList(texts) == List([i \in 1..Len(texts) |-> Str(texts[i])])

\* repr(v) and str(v). A str is quoted with apostrophes in a repr.
RECURSIVE PyRepr(_)
RECURSIVE JoinRepr(_, _)
JoinRepr(v, i) ==
    IF i > Len(v.items) THEN <<>>
    ELSE (IF i > 1 THEN <<44, 32>> ELSE <<>>)
         \o (IF v.t = "dict" THEN <<39>> \o v.keys[i] \o <<39, 58, 32>> ELSE <<>>)
         \o PyRepr(v.items[i])
         \o JoinRepr(v, i + 1)
PyRepr(v) ==
    CASE v.t = "null" -> S_None
      [] v.t = "bool" -> IF v.n = 1 THEN S_True ELSE S_False
      [] v.t = "int" -> IntText(v.n)
      [] v.t = "str" -> <<39>> \o v.s \o <<39>>
      [] v.t = "list" -> <<91>> \o JoinRepr(v, 1) \o <<93>>
      [] v.t = "dict" -> <<123>> \o JoinRepr(v, 1) \o <<125>>
PyStr(v) == IF v.t = "str" THEN v.s ELSE PyRepr(v)

\* ------------------------------------------------------------------ JSON

\* JSON text of a value (compact separators), used to write generator outputs.
RECURSIVE JsonText(_)
RECURSIVE JsonJoin(_, _)
JsonJoin(v, i) ==
    IF i > Len(v.items) THEN <<>>
    ELSE (IF i > 1 THEN <<44>> ELSE <<>>)
         \o (IF v.t = "dict" THEN <<34>> \o v.keys[i] \o <<34, 58>> ELSE <<>>)
         \o JsonText(v.items[i])
         \o JsonJoin(v, i + 1)
JsonText(v) ==
    CASE v.t = "null" -> <<110, 117, 108, 108>>
      [] v.t = "bool" -> IF v.n = 1 THEN <<116, 114, 117, 101>> ELSE <<102, 97, 108, 115, 101>>
      [] v.t = "int" -> IntText(v.n)
      [] v.t = "str" -> <<34>> \o v.s \o <<34>>
      [] v.t = "list" -> <<91>> \o JsonJoin(v, 1) \o <<93>>
      [] v.t = "dict" -> <<123>> \o JsonJoin(v, 1) \o <<125>>

\* json.loads: a recursive-descent parser over the text. A parse is
\* [ok, v, i]: whether it succeeded, the value, and the index after it.
\* Numbers are integers and a string escape is one of \" \\ \/ \n \t, which
\* is the alphabet of the generator outputs modelled here; anything else
\* is malformed.
ParseFail == [ok |-> FALSE, v |-> Null, i |-> 0]
Parsed(v, i) == [ok |-> TRUE, v |-> v, i |-> i]

JsonWhitespace == {32, 9, 10, 13}

RECURSIVE SkipWs(_, _)
SkipWs(s, i) == IF i <= Len(s) /\ s[i] \in JsonWhitespace THEN SkipWs(s, i + 1) ELSE i

MatchAt(s, i, word) ==
    /\ i + Len(word) - 1 <= Len(s)
    /\ \A j \in 1..Len(word) : s[i + j - 1] = word[j]

IsDigit(c) == c >= 48 /\ c <= 57

\* The text of a string literal whose opening quote is at i - 1.
RECURSIVE ParseStringBody(_, _, _)
ParseStringBody(s, i, acc) ==
    IF i > Len(s) THEN ParseFail
    ELSE IF s[i] = 34 THEN Parsed(Str(acc), i + 1)
    ELSE IF s[i] < 32 THEN ParseFail
    ELSE IF s[i] = 92 THEN
        IF i + 1 > Len(s) THEN ParseFail
        ELSE IF s[i + 1] \in {34, 92, 47} THEN ParseStringBody(s, i + 2, Append(acc, s[i + 1]))
        ELSE IF s[i + 1] = 110 THEN ParseStringBody(s, i + 2, Append(acc, 10))
        ELSE IF s[i + 1] = 116 THEN ParseStringBody(s, i + 2, Append(acc, 9))
        ELSE ParseFail
    ELSE ParseStringBody(s, i + 1, Append(acc, s[i]))

\* An unsigned integer that starts at i: digits, no leading zero, and no
\* fraction or exponent after them.
RECURSIVE ParseDigits(_, _, _)
ParseDigits(s, i, acc) ==
    IF i <= Len(s) /\ IsDigit(s[i]) THEN ParseDigits(s, i + 1, acc * 10 + (s[i] - 48))
    ELSE [n |-> acc, i |-> i]
UnsignedFrom(s, j, d) ==
    IF s[j] = 48 /\ d.i > j + 1 THEN ParseFail
    ELSE IF d.i <= Len(s) /\ s[d.i] \in {46, 101, 69} THEN ParseFail
    ELSE Parsed(Num(d.n), d.i)
ParseUnsigned(s, j) ==
    IF j > Len(s) \/ ~IsDigit(s[j]) THEN ParseFail ELSE UnsignedFrom(s, j, ParseDigits(s, j, 0))
NegNumber(p) == IF p.ok THEN Parsed(Num(0 - p.v.n), p.i) ELSE ParseFail

ParseNumber(s, i) ==
    IF s[i] = 45 THEN NegNumber(ParseUnsigned(s, i + 1)) ELSE ParseUnsigned(s, i)

RECURSIVE ParseValue(_, _)
RECURSIVE ParseItems(_, _, _)
RECURSIVE ItemsAfter(_, _, _)
RECURSIVE ItemsNext(_, _, _)
RECURSIVE ParseMembers(_, _, _)
RECURSIVE MembersKey(_, _, _)
RECURSIVE MembersColon(_, _, _)
RECURSIVE MembersValue(_, _, _, _)
RECURSIVE MembersAfter(_, _, _, _)
RECURSIVE MembersNext(_, _, _)

\* The elements after "[" or after a ",": the next element e, then at j a
\* "," or the closing "]".
ParseItems(s, i, acc) == ItemsAfter(s, ParseValue(s, SkipWs(s, i)), acc)
ItemsAfter(s, e, acc) ==
    IF ~e.ok THEN ParseFail ELSE ItemsNext(s, SkipWs(s, e.i), Append(acc, e.v))
ItemsNext(s, j, acc) ==
    IF j > Len(s) THEN ParseFail
    ELSE IF s[j] = 44 THEN ParseItems(s, j + 1, acc)
    ELSE IF s[j] = 93 THEN Parsed(List(acc), j + 1)
    ELSE ParseFail

\* The members after "{" or after a ",": the key k, a ":" at c, the value e,
\* then at j a "," or the closing "}". A repeated key keeps its first position
\* and takes the last value.
ParseMembers(s, i, acc) == MembersKey(s, SkipWs(s, i), acc)
MembersKey(s, k0, acc) ==
    IF k0 <= Len(s) /\ s[k0] = 34
    THEN MembersColon(s, ParseStringBody(s, k0 + 1, <<>>), acc)
    ELSE ParseFail
MembersColon(s, k, acc) ==
    IF ~k.ok THEN ParseFail ELSE MembersValue(s, k.v.s, SkipWs(s, k.i), acc)
MembersValue(s, key, c, acc) ==
    IF c > Len(s) \/ s[c] # 58 THEN ParseFail
    ELSE MembersAfter(s, key, ParseValue(s, SkipWs(s, c + 1)), acc)
MembersAfter(s, key, e, acc) ==
    IF ~e.ok THEN ParseFail ELSE MembersNext(s, SkipWs(s, e.i), Put(acc, key, e.v))
MembersNext(s, j, acc) ==
    IF j > Len(s) THEN ParseFail
    ELSE IF s[j] = 44 THEN ParseMembers(s, j + 1, acc)
    ELSE IF s[j] = 125 THEN Parsed(acc, j + 1)
    ELSE ParseFail

\* "{" or "[" at i, then at j the closing bracket or the first member.
ParseObject(s, i, j) ==
    IF j <= Len(s) /\ s[j] = 125 THEN Parsed(EmptyDict, j + 1)
    ELSE ParseMembers(s, i + 1, EmptyDict)
ParseArray(s, i, j) ==
    IF j <= Len(s) /\ s[j] = 93 THEN Parsed(List(<<>>), j + 1)
    ELSE ParseItems(s, i + 1, <<>>)

ParseValue(s, i) ==
    IF i > Len(s) THEN ParseFail
    ELSE IF s[i] = 123 THEN ParseObject(s, i, SkipWs(s, i + 1))
    ELSE IF s[i] = 91 THEN ParseArray(s, i, SkipWs(s, i + 1))
    ELSE IF s[i] = 34 THEN ParseStringBody(s, i + 1, <<>>)
    ELSE IF MatchAt(s, i, <<116, 114, 117, 101>>) THEN Parsed(Bool(TRUE), i + 4)
    ELSE IF MatchAt(s, i, <<102, 97, 108, 115, 101>>) THEN Parsed(Bool(FALSE), i + 5)
    ELSE IF MatchAt(s, i, <<110, 117, 108, 108>>) THEN Parsed(Null, i + 4)
    ELSE IF s[i] = 45 \/ IsDigit(s[i]) THEN ParseNumber(s, i)
    ELSE ParseFail

\* json.loads(text): the whole text is one value between optional whitespace.
WholeText(text, p) ==
    IF p.ok /\ SkipWs(text, p.i) = Len(text) + 1 THEN p ELSE ParseFail
JsonLoads(text) == WholeText(text, ParseValue(text, SkipWs(text, 1)))

\* _extract_json: the text from the first "{" to the last "}" is parsed; the
\* result is [ok, v]: ok = FALSE stands for the ValueError it raises.
Find(s, c) == IF \E i \in 1..Len(s) : s[i] = c
              THEN CHOOSE i \in 1..Len(s) : s[i] = c /\ \A j \in 1..(i - 1) : s[j] # c
              ELSE 0
RFind(s, c) == IF \E i \in 1..Len(s) : s[i] = c
               THEN CHOOSE i \in 1..Len(s) : s[i] = c /\ \A j \in (i + 1)..Len(s) : s[j] # c
               ELSE 0

\* A faulty extraction: the first JSON value that starts at the first "{" is
\* taken and the text after it is ignored.
ExtractFirstValue(candidate, start, end) ==
    IF start = 0 \/ end = 0 \/ end <= start THEN ParseFail
    ELSE ParseValue(candidate, start)

ExtractFrom(candidate, start, end) ==
    IF start = 0 \/ end = 0 \/ end <= start THEN ParseFail
    ELSE JsonLoads(SubSeq(candidate, start, end))
ExtractStripped(candidate) == ExtractFrom(candidate, Find(candidate, 123), RFind(candidate, 125))
_extract_json(payload) == ExtractStripped(Strip(payload))

\* ------------------------------------------------------------ normaliser

PRIORITY_VALUES == <<S_low, S_medium, S_high, S_critical>>
ASPECT_NAMES ==
    <<S_punctuality, S_crowding, S_safety, S_staff, S_condition, S_payment, S_other>>
TUPLE_OBJECT_TYPES == {S_route, S_bus_plate}
PLACE_KINDS == {S_stop, S_street, S_crossroad}
MANDATORY_SLOTS == <<K_route_numbers, K_places, K_reported_time>>
SENTINEL_TIMES == {<<>>, S_unspecified, S_unknown, S_submission_time}

\* CLARIFICATION_TEMPLATES.get(slot, {}).get(lang): None for an unknown slot.
ClarificationTemplate(slot, lang) ==
    IF slot = K_route_numbers THEN Str(IF lang = S_kk THEN T_route_numbers_kk ELSE T_route_numbers_ru)
    ELSE IF slot = K_places THEN Str(IF lang = S_kk THEN T_places_kk ELSE T_places_ru)
    ELSE IF slot = K_reported_time
        THEN Str(IF lang = S_kk THEN T_reported_time_kk ELSE T_reported_time_ru)
    ELSE Null

\* The request: description (text), known_fields (dict), submission_time_iso
\* (None or str).
AnalyzeRequest(description, known_fields, submission_time_iso) ==
    [description |-> description, known_fields |-> known_fields,
     submission_time_iso |-> submission_time_iso]

_ensure_string(value, fallback) ==
    IF IsStr(value) THEN
        LET candidate == Strip(value.s) IN IF candidate # <<>> THEN candidate ELSE fallback
    ELSE IF IsNone(value) THEN fallback
    ELSE LET candidate == Strip(PyStr(value)) IN IF candidate # <<>> THEN candidate ELSE fallback

\* The stripped texts of the str elements of a sequence, the empty ones left out.
RECURSIVE StrItems(_)
StrItems(items) ==
    IF items = <<>> THEN <<>>
    ELSE (IF IsStr(Head(items)) /\ Strip(Head(items).s) # <<>>
          THEN <<Strip(Head(items).s)>> ELSE <<>>)
         \o StrItems(Tail(items))

_ensure_str_list(raw) == IF ~IsList(raw) THEN <<>> ELSE StrItems(raw.items)

InSeq(x, seq) == \E i \in 1..Len(seq) : seq[i] = x

_normalize_aspects(raw) ==
    LET aspects == IF IsList(raw)
                   THEN SelectSeq(raw.items, LAMBDA item : IsStr(item) /\ InSeq(item.s, ASPECT_NAMES))
                   ELSE <<>>
    IN IF aspects = <<>> THEN <<S_other>> ELSE [i \in 1..Len(aspects) |-> aspects[i].s]

\* The number of occurrences of x in a sequence.
Count(x, seq) == Cardinality({i \in 1..Len(seq) : seq[i] = x})

\* result, before the tally: each of the seven names, in order, with its
\* value when that is an int >= 0 (a bool is an int) and with 0 otherwise.
KeptCounts(raw) ==
    [i \in 1..Len(ASPECT_NAMES) |->
        IF IsDict(raw) /\ IsInt(Get(raw, ASPECT_NAMES[i])) /\ Get(raw, ASPECT_NAMES[i]).n >= 0
        THEN Get(raw, ASPECT_NAMES[i])
        ELSE Num(0)]

\* A faulty tally: the kept values are returned as they are.
UntalliedCounts(kept, aspects) == kept

\* A faulty tally: each aspect adds one to its name whatever the kept values.
AlwaysTallied(kept, aspects) ==
    [i \in 1..Len(kept) |-> Num(kept[i].n + Count(ASPECT_NAMES[i], aspects))]

\* The tally: when no kept value is truthy, each aspect adds one to its name.
TalliedCounts(kept, aspects) ==
    IF (\A i \in 1..Len(kept) : ~Truthy(kept[i])) /\ aspects # <<>>
    THEN [i \in 1..Len(kept) |->
            IF Count(ASPECT_NAMES[i], aspects) > 0
            THEN Num(kept[i].n + Count(ASPECT_NAMES[i], aspects))
            ELSE kept[i]]
    ELSE kept

_normalize_aspects_count(raw, aspects) ==
    Dict(ASPECT_NAMES, TalliedCounts(KeptCounts(raw), aspects))

\* [str(item).strip() for item in items if str(item).strip()]
RECURSIVE StrTexts(_)
StrTexts(items) ==
    IF items = <<>> THEN <<>>
    ELSE LET text == Strip(PyStr(Head(items)))
         IN (IF text # <<>> THEN <<text>> ELSE <<>>) \o StrTexts(Tail(items))

_normalize_extracted_fields(raw) ==
    LET field(key) == IF IsDict(raw) /\ IsList(Get(raw, key))
                      THEN StrTexts(Get(raw, key).items)
                      ELSE <<>>
    IN Dict(<<K_route_numbers, K_bus_plates, K_places>>,
            <<StrList(field(K_route_numbers)), StrList(field(K_bus_plates)),
              StrList(field(K_places))>>)

\* _ensure_string of each element of a sequence, the empty results left out.
RECURSIVE EnsuredItems(_)
EnsuredItems(items) ==
    IF items = <<>> THEN <<>>
    ELSE (IF _ensure_string(Head(items), <<>>) # <<>>
          THEN <<_ensure_string(Head(items), <<>>)>> ELSE <<>>)
         \o EnsuredItems(Tail(items))

_normalize_known_field_list(raw) ==
    IF IsNone(raw) THEN <<>>
    ELSE IF IsStr(raw) THEN
        LET cleaned == Strip(raw.s) IN IF cleaned # <<>> THEN <<cleaned>> ELSE <<>>
    ELSE IF IsList(raw) \/ IsDict(raw) THEN EnsuredItems(raw.items)
    ELSE <<>>

\* ----------------------------------------------------- fallback analyser

_detect_language(lower_text) ==
    IF \E k \in 1..Len(kazakh_letters) : Contains(lower_text, kazakh_letters[k])
    THEN S_kk ELSE S_ru

\* A faulty _detect_priority: the tiers are tried from the lowest.
LowestTierFirst(lower_text) ==
    IF AnyIn(medium_keywords, lower_text) THEN S_medium
    ELSE IF AnyIn(high_keywords, lower_text) THEN S_high
    ELSE IF AnyIn(critical_keywords, lower_text) THEN S_critical
    ELSE S_low

_detect_priority(lower_text) ==
    IF AnyIn(critical_keywords, lower_text) THEN S_critical
    ELSE IF AnyIn(high_keywords, lower_text) THEN S_high
    ELSE IF AnyIn(medium_keywords, lower_text) THEN S_medium
    ELSE S_low

\* A faulty _detect_aspects: the checks stop at the first group that matches.
FirstAspectOnly(lower_text) ==
    LET groups == <<punctuality_words, crowding_words, safety_words, staff_words,
                    condition_words, payment_words>>
        hits == {i \in 1..6 : AnyIn(groups[i], lower_text)}
        first == IF hits = {} THEN 7 ELSE CHOOSE i \in hits : \A j \in hits : i <= j
    IN [aspects |-> <<ASPECT_NAMES[first]>>,
        aspects_count |->
            Dict(ASPECT_NAMES, [i \in 1..7 |-> Num(IF i = first THEN 1 ELSE 0)])]

\* _detect_aspects: [aspects, aspects_count], the selected aspects in the
\* order of the checks and the seven counters in the order of ASPECT_NAMES.
_detect_aspects(lower_text) ==
    LET check(words) == IF AnyIn(words, lower_text) THEN 1 ELSE 0
        punctuality == check(punctuality_words)
        crowding == check(crowding_words)
        safety == check(safety_words)
        staff == check(staff_words)
        condition == check(condition_words)
        payment == check(payment_words)
        selected == (IF punctuality = 1 THEN <<S_punctuality>> ELSE <<>>)
                    \o (IF crowding = 1 THEN <<S_crowding>> ELSE <<>>)
                    \o (IF safety = 1 THEN <<S_safety>> ELSE <<>>)
                    \o (IF staff = 1 THEN <<S_staff>> ELSE <<>>)
                    \o (IF condition = 1 THEN <<S_condition>> ELSE <<>>)
                    \o (IF payment = 1 THEN <<S_payment>> ELSE <<>>)
        other == IF selected = <<>> THEN 1 ELSE 0
    IN [aspects |-> IF selected = <<>> THEN <<S_other>> ELSE selected,
        aspects_count |->
            Dict(ASPECT_NAMES,
                 <<Num(punctuality), Num(crowding), Num(safety), Num(staff), Num(condition),
                   Num(payment), Num(other)>>)]

\* \w of a regular expression, over ASCII and the Cyrillic block.
IsWordChar(c) ==
    \/ IsDigit(c)
    \/ c >= 65 /\ c <= 90
    \/ c = 95
    \/ c >= 97 /\ c <= 122
    \/ c >= 1024 /\ c <= 1153
    \/ c >= 1162 /\ c <= 1327

\* re.findall(r"\b\d{1,3}\b", text), as a set: the runs of one to three
\* digits with no word character before or after them.
RouteMatches(text) ==
    UNION { {SubSeq(text, i, j) :
                j \in {j \in i..(i + 2) :
                          /\ j <= Len(text)
                          /\ \A k \in i..j : IsDigit(text[k])
                          /\ (i = 1 \/ ~IsWordChar(text[i - 1]))
                          /\ (j = Len(text) \/ ~IsWordChar(text[j + 1]))}} :
            i \in 1..Len(text) }

_collect_routes(payload, lower_text) ==
    Sorted(Range(_normalize_known_field_list(Get(payload.known_fields, K_route_numbers)))
           \cup RouteMatches(lower_text))

\* [a-zа-я]
IsPlateLetter(c) == (c >= 97 /\ c <= 122) \/ (c >= 1072 /\ c <= 1103)

\* The length of the match of [a-zа-я]{1,2}\d{3}[a-zа-я]{2} at i, 0 if none.
PlateMatchAt(text, i) ==
    LET L(k) == k <= Len(text) /\ IsPlateLetter(text[k])
        D(k) == k <= Len(text) /\ IsDigit(text[k])
    IN IF L(i) /\ L(i + 1) /\ D(i + 2) /\ D(i + 3) /\ D(i + 4) /\ L(i + 5) /\ L(i + 6) THEN 7
       ELSE IF L(i) /\ D(i + 1) /\ D(i + 2) /\ D(i + 3) /\ L(i + 4) /\ L(i + 5) THEN 6
       ELSE 0

\* re.findall of the plate pattern: leftmost matches, not overlapping.
RECURSIVE PlateMatches(_, _)
PlateMatches(text, i) ==
    IF i > Len(text) THEN {}
    ELSE LET m == PlateMatchAt(text, i)
         IN IF m > 0 THEN {SubSeq(text, i, i + m - 1)} \cup PlateMatches(text, i + m)
            ELSE PlateMatches(text, i + 1)

_collect_bus_plates(payload, lower_text) ==
    Sorted({Upper(value) :
               value \in Range(_normalize_known_field_list(Get(payload.known_fields, K_bus_plates)))}
           \cup {Upper(m) : m \in PlateMatches(lower_text, 1)})

_collect_places(payload, lower_text) ==
    Sorted(Range(_normalize_known_field_list(Get(payload.known_fields, K_places)))
           \cup Range(_normalize_known_field_list(Get(payload.known_fields, K_place)))
           \cup Range(_normalize_known_field_list(Get(payload.known_fields, K_location)))
           \cup {stop_keywords[k] : k \in {k \in 1..Len(stop_keywords) :
                                              Contains(lower_text, stop_keywords[k])}})

\* A faulty _build_recommendations: the texts of medium whatever the priority.
MediumTemplates(priority) == <<R_medium_kk, R_medium_ru>>

\* _build_recommendations(priority): <<kk, ru>>
_build_recommendations(priority) ==
    IF priority = S_critical THEN <<R_critical_kk, R_critical_ru>>
    ELSE IF priority = S_high THEN <<R_high_kk, R_high_ru>>
    ELSE IF priority = S_medium THEN <<R_medium_kk, R_medium_ru>>
    ELSE <<R_low_kk, R_low_ru>>

\* -------------------------------------------------------------- enforcer

\* The dict values among the elements of a list value (an absent or falsy
\* value counts as the empty list).
DictItems(v) == SelectSeq(Or(v, List(<<>>)).items, IsDict)

\* A faulty route_candidates: the value of an object of any type counts, a
\* bus plate included.
RouteOrPlateCandidates(normalized, payload) ==
    LET tuples == DictItems(Get(normalized, K_tuples))
        extracted == Or(Get(normalized, K_extracted_fields), EmptyDict)
        ofTuple(item) ==
            {_ensure_string(Get(obj, K_value), <<>>) :
                obj \in Range(DictItems(Get(item, K_objects)))}
    IN (UNION {ofTuple(tuples[i]) : i \in 1..Len(tuples)} \ {<<>>})
       \cup Range(_normalize_known_field_list(Get(payload.known_fields, K_route_numbers)))
       \cup Range(_normalize_known_field_list(Get(extracted, K_route_numbers)))

\* route_candidates
RouteCandidates(normalized, payload) ==
    LET tuples == DictItems(Get(normalized, K_tuples))
        extracted == Or(Get(normalized, K_extracted_fields), EmptyDict)
        ofTuple(item) ==
            {_ensure_string(Get(obj, K_value), <<>>) :
                obj \in {o \in Range(DictItems(Get(item, K_objects))) : Get(o, K_type) = Str(S_route)}}
    IN (UNION {ofTuple(tuples[i]) : i \in 1..Len(tuples)} \ {<<>>})
       \cup Range(_normalize_known_field_list(Get(payload.known_fields, K_route_numbers)))
       \cup Range(_normalize_known_field_list(Get(extracted, K_route_numbers)))

\* place_candidates
PlaceCandidates(normalized, payload) ==
    LET tuples == DictItems(Get(normalized, K_tuples))
        extracted == Or(Get(normalized, K_extracted_fields), EmptyDict)
        ofTuple(item) ==
            IF IsDict(Get(item, K_place))
            THEN {_ensure_string(Get(Get(item, K_place), K_value), <<>>)}
            ELSE {}
    IN (UNION {ofTuple(tuples[i]) : i \in 1..Len(tuples)} \ {<<>>})
       \cup Range(_normalize_known_field_list(Get(payload.known_fields, K_places)))
       \cup Range(_normalize_known_field_list(Get(extracted, K_places)))

\* A faulty time_candidates: every non-empty tuple time counts, a placeholder
\* included.
AnyTimeCandidates(normalized, payload) ==
    LET tuples == DictItems(Get(normalized, K_tuples))
    IN ({_ensure_string(Get(tuples[i], K_time), <<>>) : i \in 1..Len(tuples)} \ {<<>>})
       \cup ({_ensure_string(Get(payload.known_fields, K_reported_time), <<>>),
              _ensure_string(Get(payload.known_fields, K_time), <<>>)} \ {<<>>})

\* time_candidates
TimeCandidates(normalized, payload) ==
    LET tuples == DictItems(Get(normalized, K_tuples))
        ofTuple(item) ==
            LET value == _ensure_string(Get(item, K_time), <<>>)
            IN IF value # <<>> /\ Lower(value) \notin SENTINEL_TIMES THEN {value} ELSE {}
    IN UNION {ofTuple(tuples[i]) : i \in 1..Len(tuples)}
       \cup ({_ensure_string(Get(payload.known_fields, K_reported_time), <<>>),
              _ensure_string(Get(payload.known_fields, K_time), <<>>)} \ {<<>>})

\* mandatory_missing
MandatoryMissing(normalized, payload) ==
    (IF RouteCandidates(normalized, payload) = {} THEN <<K_route_numbers>> ELSE <<>>)
    \o (IF PlaceCandidates(normalized, payload) = {} THEN <<K_places>> ELSE <<>>)
    \o (IF TimeCandidates(normalized, payload) = {} THEN <<K_reported_time>> ELSE <<>>)

\* A faulty filtered_existing: a mandatory slot that is now met stays declared.
RECURSIVE KeepsMetSlots(_, _, _)
KeepsMetSlots(existing, mandatory_missing, acc) ==
    IF existing = <<>> THEN acc
    ELSE IF ~InSeq(Head(existing), acc)
    THEN KeepsMetSlots(Tail(existing), mandatory_missing, Append(acc, Head(existing)))
    ELSE KeepsMetSlots(Tail(existing), mandatory_missing, acc)

\* filtered_existing: the declared slots without the mandatory ones now met
\* and without repetitions.
RECURSIVE FilteredExisting(_, _, _)
FilteredExisting(existing, mandatory_missing, acc) ==
    IF existing = <<>> THEN acc
    ELSE LET slot == Head(existing)
         IN IF InSeq(slot, MANDATORY_SLOTS) /\ ~InSeq(slot, mandatory_missing)
            THEN FilteredExisting(Tail(existing), mandatory_missing, acc)
            ELSE IF ~InSeq(slot, acc)
            THEN FilteredExisting(Tail(existing), mandatory_missing, Append(acc, slot))
            ELSE FilteredExisting(Tail(existing), mandatory_missing, acc)

\* missing: the filtered declared slots, then the unmet mandatory slots not
\* among them, in the order of MANDATORY_SLOTS.
MissingFrom(filtered_existing, mandatory_missing) ==
    filtered_existing
    \o SelectSeq(MANDATORY_SLOTS,
                 LAMBDA slot : InSeq(slot, mandatory_missing) /\ ~InSeq(slot, filtered_existing))

ExistingAndMandatory(existing_missing, mandatory_missing) ==
    MissingFrom(FilteredExisting(existing_missing, mandatory_missing, <<>>), mandatory_missing)

FinalMissing(normalized, payload) ==
    ExistingAndMandatory(_ensure_str_list(Get(normalized, K_missing_slots)),
                         MandatoryMissing(normalized, payload))

\* normalized[key] = template, if the question under key is empty.
FillQuestion(normalized, key, template) ==
    IF _ensure_string(Get(normalized, key), <<>>) = <<>>
    THEN Put(normalized, key, template)
    ELSE normalized

\* A faulty branch: the templates are those of the last missing slot.
TemplateOfLast(normalized, missing) ==
    FillQuestion(
        FillQuestion(
            Put(Put(normalized, K_need_clarification, Bool(TRUE)),
                K_missing_slots, StrList(missing)),
            K_clarifying_question_ru, ClarificationTemplate(missing[Len(missing)], S_ru)),
        K_clarifying_question_kk, ClarificationTemplate(missing[Len(missing)], S_kk))

\* The branch taken when missing is not empty.
EnforceMissing(normalized, missing) ==
    FillQuestion(
        FillQuestion(
            Put(Put(normalized, K_need_clarification, Bool(TRUE)),
                K_missing_slots, StrList(missing)),
            K_clarifying_question_ru, ClarificationTemplate(missing[1], S_ru)),
        K_clarifying_question_kk, ClarificationTemplate(missing[1], S_kk))

\* A faulty else branch: need_clarification is left as the generator set it.
KeepNeed(normalized) == normalized

\* normalized["need_clarification"] = False, if it is truthy.
ClearNeed(normalized) ==
    IF Truthy(Get(normalized, K_need_clarification))
    THEN Put(normalized, K_need_clarification, Bool(FALSE))
    ELSE normalized

\* A faulty else branch: the question under key is cleared whatever it is.
ClearAnyQuestion(normalized, key) == Put(normalized, key, Null)

\* normalized[key] = None, if the question under key is falsy.
ClearQuestion(normalized, key) ==
    IF ~Truthy(Get(normalized, key)) THEN Put(normalized, key, Null) ELSE normalized

\* The branch taken when missing is empty.
EnforceComplete(normalized) ==
    ClearQuestion(
        ClearQuestion(ClearNeed(Put(normalized, K_missing_slots, List(<<>>))),
                      K_clarifying_question_ru),
        K_clarifying_question_kk)

EnforceWith(normalized, missing) ==
    IF missing # <<>> THEN EnforceMissing(normalized, missing)
    ELSE EnforceComplete(normalized)

_enforce_mandatory_slots(normalized, payload) ==
    EnforceWith(normalized, FinalMissing(normalized, payload))

\* A faulty _default_time: the known facts come before the submission time.
KnownTimeFirst(payload) ==
    LET c1 == _ensure_string(payload.submission_time_iso, <<>>)
        c2 == _ensure_string(Get(payload.known_fields, K_reported_time), <<>>)
        c3 == _ensure_string(Get(payload.known_fields, K_time), <<>>)
    IN IF c2 # <<>> THEN c2
       ELSE IF c3 # <<>> THEN c3
       ELSE IF c1 # <<>> THEN c1
       ELSE S_unspecified

\* A faulty _default_time: the placeholder whatever the request carries.
AlwaysUnspecified(payload) == S_unspecified

_default_time(payload) ==
    LET c1 == _ensure_string(payload.submission_time_iso, <<>>)
        c2 == _ensure_string(Get(payload.known_fields, K_reported_time), <<>>)
        c3 == _ensure_string(Get(payload.known_fields, K_time), <<>>)
    IN IF c1 # <<>> THEN c1
       ELSE IF c2 # <<>> THEN c2
       ELSE IF c3 # <<>> THEN c3
       ELSE S_unspecified

\* A faulty normalized_objects: the type of an object is not checked.
RECURSIVE UncheckedObjects(_)
UncheckedObjects(objs) ==
    IF objs = <<>> THEN <<>>
    ELSE LET obj == Head(objs)
             obj_type == _ensure_string(Get(obj, K_type), S_route)
             value == _ensure_string(Get(obj, K_value), <<>>)
         IN (IF IsDict(obj) /\ value # <<>>
             THEN <<Dict(<<K_type, K_value>>, <<Str(obj_type), Str(value)>>)>>
             ELSE <<>>)
            \o UncheckedObjects(Tail(objs))

\* A faulty normalized_objects: an object with no type is dropped.
RECURSIVE TypedObjectsOnly(_)
TypedObjectsOnly(objs) ==
    IF objs = <<>> THEN <<>>
    ELSE LET obj == Head(objs)
             obj_type == _ensure_string(Get(obj, K_type), <<>>)
             value == _ensure_string(Get(obj, K_value), <<>>)
         IN (IF IsDict(obj) /\ obj_type \in TUPLE_OBJECT_TYPES /\ value # <<>>
             THEN <<Dict(<<K_type, K_value>>, <<Str(obj_type), Str(value)>>)>>
             ELSE <<>>)
            \o TypedObjectsOnly(Tail(objs))

\* normalized_objects of one tuple
RECURSIVE NormalizedObjects(_)
NormalizedObjects(objs) ==
    IF objs = <<>> THEN <<>>
    ELSE LET obj == Head(objs)
             obj_type == _ensure_string(Get(obj, K_type), S_route)
             value == _ensure_string(Get(obj, K_value), <<>>)
         IN (IF IsDict(obj) /\ obj_type \in TUPLE_OBJECT_TYPES /\ value # <<>>
             THEN <<Dict(<<K_type, K_value>>, <<Str(obj_type), Str(value)>>)>>
             ELSE <<>>)
            \o NormalizedObjects(Tail(objs))

\* A faulty normalized_place: the known places are not looked at.
PlaceAsGiven(place_raw, payload) ==
    LET kind == _ensure_string(Get(place_raw, K_kind), <<>>)
        value == _ensure_string(Get(place_raw, K_value), <<>>)
    IN IF IsDict(place_raw) /\ kind \in PLACE_KINDS /\ value # <<>>
       THEN Dict(<<K_kind, K_value>>, <<Str(kind), Str(value)>>)
       ELSE Null

\* normalized_place of one tuple: None when neither the tuple nor the known
\* fields give one.
NormalizedPlace(place_raw, payload) ==
    LET kind == _ensure_string(Get(place_raw, K_kind), <<>>)
        value == _ensure_string(Get(place_raw, K_value), <<>>)
        known_places == _normalize_known_field_list(Get(payload.known_fields, K_places))
    IN IF IsDict(place_raw) /\ kind \in PLACE_KINDS /\ value # <<>>
       THEN Dict(<<K_kind, K_value>>, <<Str(kind), Str(value)>>)
       ELSE IF known_places # <<>>
       THEN Dict(<<K_kind, K_value>>, <<Str(S_stop), Str(known_places[1])>>)
       ELSE Null

NormalizedTuple(item, payload) ==
    Dict(<<K_objects, K_time, K_place, K_aspects>>,
         <<List(IF IsList(Get(item, K_objects))
                THEN NormalizedObjects(Get(item, K_objects).items) ELSE <<>>),
           Str(_ensure_string(Get(item, K_time), _default_time(payload))),
           NormalizedPlace(Get(item, K_place), payload),
           StrList(_normalize_aspects(Get(item, K_aspects)))>>)

_normalize_tuples(raw, payload) ==
    IF ~IsList(raw) THEN <<>>
    ELSE LET dicts == SelectSeq(raw.items, IsDict)
         IN [i \in 1..Len(dicts) |-> NormalizedTuple(dicts[i], payload)]

\* aspects_flat
RECURSIVE AspectsFlat(_)
AspectsFlat(tuples) ==
    IF tuples = <<>> THEN <<>>
    ELSE (LET a == Get(Head(tuples), K_aspects)
          IN [i \in 1..Len(a.items) |-> a.items[i].s])
         \o AspectsFlat(Tail(tuples))

\* The loop over the two clarifying questions: an absent or None question
\* is left alone, another is trimmed to a str, or to None if empty.
TrimQuestion(normalized, key) ==
    IF IsNone(Get(normalized, key)) THEN normalized
    ELSE Put(normalized, key,
             IF _ensure_string(Get(normalized, key), <<>>) = <<>> THEN Null
             ELSE Str(_ensure_string(Get(normalized, key), <<>>)))

\* The statements of _normalize_model_payload, each from the dict before it
\* to the dict after it.
SetNeed(n) == Put(n, K_need_clarification, Bool(Truthy(Get(n, K_need_clarification))))
SetMissing(n) == Put(n, K_missing_slots, StrList(_ensure_str_list(Get(n, K_missing_slots))))

\* priority
CheckedPriority(p) == IF InSeq(p, PRIORITY_VALUES) THEN p ELSE S_medium
PriorityOf(n) == CheckedPriority(_ensure_string(Get(n, K_priority), S_medium))
SetPriority(n) == Put(n, K_priority, Str(PriorityOf(n)))

SetTuples(n, payload) == Put(n, K_tuples, List(_normalize_tuples(Get(n, K_tuples), payload)))
SetAspectsCount(n) ==
    Put(n, K_aspects_count,
        _normalize_aspects_count(Get(n, K_aspects_count), AspectsFlat(Get(n, K_tuples).items)))
SetRecommendations(n) ==
    Put(Put(n, K_recommendation_kk,
            Str(_ensure_string(Get(n, K_recommendation_kk),
                               _build_recommendations(Get(n, K_priority).s)[1]))),
        K_recommendation_ru,
        Str(_ensure_string(Get(n, K_recommendation_ru),
                           _build_recommendations(Get(n, K_priority).s)[2])))

\* language
CheckedLanguage(language, payload) ==
    IF language \in {S_kk, S_ru} THEN language ELSE _detect_language(Lower(payload.description))
SetLanguage(n, payload) ==
    Put(n, K_language,
        Str(CheckedLanguage(Lower(_ensure_string(Get(n, K_language), <<>>)), payload)))

SetExtracted(n) ==
    Put(n, K_extracted_fields, _normalize_extracted_fields(Get(n, K_extracted_fields)))
SetQuestions(n) ==
    TrimQuestion(TrimQuestion(n, K_clarifying_question_kk), K_clarifying_question_ru)

_normalize_model_payload(data, payload) ==
    _enforce_mandatory_slots(
        SetQuestions(
            SetExtracted(
                SetLanguage(
                    SetRecommendations(
                        SetAspectsCount(
                            SetTuples(SetPriority(SetMissing(SetNeed(data))), payload))),
                    payload))),
        payload)

\* ------------------------------------------------------- response schema

\* Validation of a value against the pydantic models (lax mode). A
\* validation is [ok, v]: ok = FALSE stands for the ValidationError, and v
\* is the validated model as model_dump() gives it, fields in declared order.
Invalid == [ok |-> FALSE, v |-> Null]
Valid(v) == [ok |-> TRUE, v |-> v]

\* A field of type str: a str only (numbers are not coerced).
ValidStr(v) == IF IsStr(v) THEN Valid(v) ELSE Invalid
\* A field of type int: an int, or a bool taken as 0 or 1.
ValidInt(v) == IF IsInt(v) THEN Valid(Num(v.n)) ELSE Invalid
\* A field of type bool: a bool, or the int 0 or 1.
ValidBool(v) ==
    IF v.t = "bool" \/ (v.t = "int" /\ v.n \in {0, 1}) THEN Valid(Bool(v.n = 1)) ELSE Invalid
\* A field of type Literal[...].
ValidLiteral(v, allowed) == IF IsStr(v) /\ v.s \in allowed THEN Valid(v) ELSE Invalid
\* A field of type Optional[str].
ValidOptStr(v) == IF IsNone(v) \/ IsStr(v) THEN Valid(v) ELSE Invalid

\* A field of type List[T], T validated by ValidItem.
ValidList(v, ValidItem(_)) ==
    IF IsList(v) /\ \A i \in 1..Len(v.items) : ValidItem(v.items[i]).ok
    THEN Valid(List([i \in 1..Len(v.items) |-> ValidItem(v.items[i]).v]))
    ELSE Invalid

\* A model: the fields are validated one by one from the dict's entries.
ValidModel(keys, fields) ==
    IF \A i \in 1..Len(fields) : fields[i].ok
    THEN Valid(Dict(keys, [i \in 1..Len(fields) |-> fields[i].v]))
    ELSE Invalid

\* class TupleObject
TupleObject(v) ==
    IF ~IsDict(v) THEN Invalid
    ELSE ValidModel(<<K_type, K_value>>, <<ValidStr(Get(v, K_type)), ValidStr(Get(v, K_value))>>)

\* class TuplePlace
TuplePlace(v) ==
    IF ~IsDict(v) THEN Invalid
    ELSE ValidModel(<<K_kind, K_value>>,
                    <<ValidLiteral(Get(v, K_kind), PLACE_KINDS), ValidStr(Get(v, K_value))>>)

ValidAspect(v) == ValidLiteral(v, Range(ASPECT_NAMES))

\* class ComplaintTuple
ComplaintTuple(v) ==
    IF ~IsDict(v) THEN Invalid
    ELSE ValidModel(<<K_objects, K_time, K_place, K_aspects>>,
                    <<ValidList(Get(v, K_objects), TupleObject),
                      ValidStr(Get(v, K_time)),
                      IF IsNone(Get(v, K_place)) THEN Valid(Null) ELSE TuplePlace(Get(v, K_place)),
                      ValidList(Get(v, K_aspects), ValidAspect)>>)

\* class AspectsCount
AspectsCount(v) ==
    IF ~IsDict(v) THEN Invalid
    ELSE ValidModel(ASPECT_NAMES, [i \in 1..Len(ASPECT_NAMES) |-> ValidInt(Get(v, ASPECT_NAMES[i]))])

\* class ExtractedFields: an absent list is the empty list.
ExtractedFields(v) ==
    LET field(key) == IF HasKey(v, key) THEN ValidList(Get(v, key), ValidStr)
                      ELSE Valid(List(<<>>))
    IN IF ~IsDict(v) THEN Invalid
       ELSE ValidModel(<<K_route_numbers, K_bus_plates, K_places>>,
                       <<field(K_route_numbers), field(K_bus_plates), field(K_places)>>)

RESPONSE_FIELDS ==
    <<K_need_clarification, K_missing_slots, K_priority, K_tuples, K_aspects_count,
      K_recommendation_kk, K_recommendation_ru, K_language, K_extracted_fields,
      K_clarifying_question_kk, K_clarifying_question_ru>>

\* class AnalyzeResponse, AnalyzeResponse.model_validate(v): extra="forbid".
AnalyzeResponse(v) ==
    IF ~IsDict(v) \/ \E i \in 1..Len(v.keys) : ~InSeq(v.keys[i], RESPONSE_FIELDS) THEN Invalid
    ELSE ValidModel(RESPONSE_FIELDS,
                    <<ValidBool(Get(v, K_need_clarification)),
                      ValidList(Get(v, K_missing_slots), ValidStr),
                      ValidLiteral(Get(v, K_priority), Range(PRIORITY_VALUES)),
                      ValidList(Get(v, K_tuples), ComplaintTuple),
                      AspectsCount(Get(v, K_aspects_count)),
                      ValidStr(Get(v, K_recommendation_kk)),
                      ValidStr(Get(v, K_recommendation_ru)),
                      ValidLiteral(Get(v, K_language), {S_kk, S_ru}),
                      ExtractedFields(Get(v, K_extracted_fields)),
                      ValidOptStr(Get(v, K_clarifying_question_kk)),
                      ValidOptStr(Get(v, K_clarifying_question_ru))>>)

\* --------------------------------------------------------------- fallback

\* The one tuple of the fallback, as the arguments given to ComplaintTuple:
\* its time is submission_time_iso or known_fields.get("reported_time") or
\* "unspecified", whatever the type of the known field.
FallbackTuple(payload, route_numbers, aspects) ==
    LET place_candidates == _normalize_known_field_list(Get(payload.known_fields, K_places))
    IN Dict(<<K_objects, K_time, K_place, K_aspects>>,
            <<List([i \in 1..Len(route_numbers) |->
                      Dict(<<K_type, K_value>>, <<Str(S_route), Str(route_numbers[i])>>)]),
              Or(Or(payload.submission_time_iso, Get(payload.known_fields, K_reported_time)),
                 Str(S_unspecified)),
              IF place_candidates # <<>>
              THEN Dict(<<K_kind, K_value>>, <<Str(S_stop), Str(place_candidates[1])>>)
              ELSE Null,
              StrList(aspects)>>)

\* A faulty fallback response: the tuple is there whatever route_numbers is.
FallbackAlwaysTuple(payload, lower_text, priority, detected, route_numbers) ==
    Dict(RESPONSE_FIELDS,
         <<Bool(FALSE),
           List(<<>>),
           Str(priority),
           List(<<FallbackTuple(payload, route_numbers, detected.aspects)>>),
           detected.aspects_count,
           Str(_build_recommendations(priority)[1]),
           Str(_build_recommendations(priority)[2]),
           Str(_detect_language(lower_text)),
           Dict(<<K_route_numbers, K_bus_plates, K_places>>,
                <<StrList(route_numbers),
                  StrList(_collect_bus_plates(payload, lower_text)),
                  StrList(_collect_places(payload, lower_text))>>),
           Null,
           Null>>)

\* The response built from what was detected, before the Enforcer: the one
\* tuple is there when route_numbers is not empty.
FallbackResponse(payload, lower_text, priority, detected, route_numbers) ==
    Dict(RESPONSE_FIELDS,
         <<Bool(FALSE),
           List(<<>>),
           Str(priority),
           List(IF route_numbers # <<>>
                THEN <<FallbackTuple(payload, route_numbers, detected.aspects)>>
                ELSE <<>>),
           detected.aspects_count,
           Str(_build_recommendations(priority)[1]),
           Str(_build_recommendations(priority)[2]),
           Str(_detect_language(lower_text)),
           Dict(<<K_route_numbers, K_bus_plates, K_places>>,
                <<StrList(route_numbers),
                  StrList(_collect_bus_plates(payload, lower_text)),
                  StrList(_collect_places(payload, lower_text))>>),
           Null,
           Null>>)

\* A faulty fallback: the response is returned as built, the Enforcer skipped.
UnenforcedFallback(response, payload) == response

\* enforced = _enforce_mandatory_slots(response.model_dump(), payload), then
\* AnalyzeResponse.model_validate(enforced).
EnforcedFallback(response, payload) ==
    IF ~response.ok THEN Invalid
    ELSE AnalyzeResponse(_enforce_mandatory_slots(response.v, payload))

FallbackOf(payload, lower_text) ==
    EnforcedFallback(
        AnalyzeResponse(FallbackResponse(payload, lower_text, _detect_priority(lower_text),
                                         _detect_aspects(lower_text),
                                         _collect_routes(payload, lower_text))),
        payload)

\* _fallback_analysis: [ok, v], ok = FALSE when a model constructor raises.
_fallback_analysis(payload) == FallbackOf(payload, Lower(Strip(payload.description)))

\* ------------------------------------------------------------ transcript

\* json.dumps(v, ensure_ascii=False, indent=2): the text of a str between
\* quotes, with " and \ escaped.
RECURSIVE Escaped(_)
Escaped(s) ==
    IF s = <<>> THEN <<>>
    ELSE (IF Head(s) \in {34, 92} THEN <<92, Head(s)>>
          ELSE IF Head(s) = 10 THEN <<92, 110>>
          ELSE IF Head(s) = 9 THEN <<92, 116>>
          ELSE <<Head(s)>>) \o Escaped(Tail(s))

Spaces(k) == [i \in 1..k |-> 32]

RECURSIVE JsonDumps(_, _)
RECURSIVE JsonDumpsJoin(_, _, _)
JsonDumpsJoin(v, i, level) ==
    IF i > Len(v.items) THEN <<>>
    ELSE (IF i > 1 THEN <<44>> ELSE <<>>)
         \o <<10>> \o Spaces(2 * (level + 1))
         \o (IF v.t = "dict" THEN <<34>> \o Escaped(v.keys[i]) \o <<34, 58, 32>> ELSE <<>>)
         \o JsonDumps(v.items[i], level + 1)
         \o JsonDumpsJoin(v, i + 1, level)
JsonDumps(v, level) ==
    CASE v.t = "null" -> <<110, 117, 108, 108>>
      [] v.t = "bool" -> IF v.n = 1 THEN <<116, 114, 117, 101>> ELSE <<102, 97, 108, 115, 101>>
      [] v.t = "int" -> IntText(v.n)
      [] v.t = "str" -> <<34>> \o Escaped(v.s) \o <<34>>
      [] v.t = "list" ->
            IF v.items = <<>> THEN <<91, 93>>
            ELSE <<91>> \o JsonDumpsJoin(v, 1, level) \o <<10>> \o Spaces(2 * level) \o <<93>>
      [] v.t = "dict" ->
            IF v.items = <<>> THEN <<123, 125>>
            ELSE <<123>> \o JsonDumpsJoin(v, 1, level) \o <<10>> \o Spaces(2 * level) \o <<125>>

\* A turn of a transcript. The two fixed instructions are named, not spelled
\* out: prompt = "system" is the system prompt, prompt = "retry" the corrective
\* instruction; content is the text of every other turn.
Turn(role, prompt, content) == [role |-> role, prompt |-> prompt, content |-> content]

_build_messages(payload) ==
    LET user_payload == Dict(<<K_complaint, K_known_fields, K_submission_time_iso>>,
                             <<Str(payload.description), payload.known_fields,
                               payload.submission_time_iso>>)
    IN <<Turn("system", "system", <<>>), Turn("user", "", JsonDumps(user_payload, 0))>>

\* retry_messages
\* A faulty retry transcript: the request turn is left out.
RetryWithoutRequest(transcript, raw) ==
    <<transcript[1], Turn("assistant", "", raw), Turn("user", "retry", <<>>)>>

RetryMessages(transcript, raw) ==
    transcript \o <<Turn("assistant", "", raw), Turn("user", "retry", <<>>)>>

\* ---------------------------------------------------------------- inputs
\* The texts the requests and the generator outputs are built from.

\* "Автобус №12 опоздал на 20 минут"
D_late ==
    <<1040, 1074, 1090, 1086, 1073, 1091, 1089, 32, 8470, 49, 50, 32, 1086, 1087, 1086, 1079,
    1076, 1072, 1083, 32, 1085, 1072, 32, 50, 48, 32, 1084, 1080, 1085, 1091, 1090>>
\* "Плохо"
D_plain == <<1055, 1083, 1086, 1093, 1086>>
\* "Аялдамада қауіпті авария"
D_stop_kk ==
    <<1040, 1103, 1083, 1076, 1072, 1084, 1072, 1076, 1072, 32, 1179, 1072, 1091, 1110, 1087,
    1090, 1110, 32, 1072, 1074, 1072, 1088, 1080, 1103>>
\* " "
D_blank == <<32>>
\* "7"
V_7 == <<55>>
\* "12"
V_12 == <<49, 50>>
\* "Абая"
V_abaya == <<1040, 1073, 1072, 1103>>
\* "08:30"
V_0830 == <<48, 56, 58, 51, 48>>
\* "2025-01-01T08:00:00+05:00"
V_iso ==
    <<50, 48, 50, 53, 45, 48, 49, 45, 48, 49, 84, 48, 56, 58, 48, 48, 58, 48, 48, 43, 48, 53,
    58, 48, 48>>
\* "Unknown"
V_Unknown == <<85, 110, 107, 110, 111, 119, 110>>
\* "Когда?"
V_question == <<1050, 1086, 1075, 1076, 1072, 63>>
\* "color"
V_color == <<99, 111, 108, 111, 114>>
\* "A123BC"
V_plate == <<65, 49, 50, 51, 66, 67>>
\* "summary"
V_summary == <<115, 117, 109, 109, 97, 114, 121>>
\* "Не могу ответить"
V_no_json ==
    <<1053, 1077, 32, 1084, 1086, 1075, 1091, 32, 1086, 1090, 1074, 1077, 1090, 1080, 1090,
    1100>>
\* " ok }"
V_tail == <<32, 111, 107, 32, 125>>
\* "Ответ: "
V_prefix == <<1054, 1090, 1074, 1077, 1090, 58, 32>>
\* "АВАРИЯ: автобус опоздал"
D_both ==
    <<1040, 1042, 1040, 1056, 1048, 1071, 58, 32, 1072, 1074, 1090, 1086, 1073, 1091, 1089, 32,
    1086, 1087, 1086, 1079, 1076, 1072, 1083>>
\* "Драка, рейс задержали"
D_fight ==
    <<1044, 1088, 1072, 1082, 1072, 44, 32, 1088, 1077, 1081, 1089, 32, 1079, 1072, 1076, 1077,
    1088, 1078, 1072, 1083, 1080>>
\* "yes"
V_yes == <<121, 101, 115>>
\* "URGENT"
V_URGENT == <<85, 82, 71, 69, 78, 84>>
\* "RU"
V_RU == <<82, 85>>
\* "tram"
V_tram == <<116, 114, 97, 109>>
\* "3"
V_3 == <<51>>
\* " 12 "
V_12_padded == <<32, 49, 50, 32>>
\* "  "
V_spaces == <<32, 32>>
\* "city"
V_city == <<99, 105, 116, 121>>
\* "Астана"
V_astana == <<1040, 1089, 1090, 1072, 1085, 1072>>
\* "speed"
V_speed == <<115, 112, 101, 101, 100>>
\* "2"
V_2 == <<50>>
\* "junk"
V_junk == <<106, 117, 110, 107>>

\* Bounds of the generator outputs: the number of tuples and of declared
\* missing slots in a generated object.
MaxTuples == 1
MaxDeclared == 1

SeqsUpTo(S, n) == UNION {[1..k -> S] : k \in 0..n}

Descriptions == {D_late, D_plain, D_stop_kk, D_both, D_fight, D_blank}

KnownFields ==
    { EmptyDict,
      Dict(<<K_route_numbers, K_places>>, <<List(<<Str(V_7)>>), Str(V_abaya)>>),
      Dict(<<K_reported_time>>, <<Str(V_0830)>>),
      Dict(<<K_reported_time>>, <<Num(5)>>),
      Dict(<<K_route_numbers, K_places, K_time>>,
           <<Num(7), Dict(<<K_location>>, <<Str(V_abaya)>>), Bool(TRUE)>>),
      Dict(<<K_time, K_reported_time, K_places>>,
           <<Str(V_12), Str(V_0830), List(<<Str(V_spaces), Str(V_astana), Str(V_abaya)>>)>>) }

SubmissionTimes == {Null, Str(V_iso), Str(D_blank)}

\* Every description with every set of known facts and no timestamp, one
\* description with every set of known facts and every timestamp, the
\* request of scenario A, and a request whose known facts are a bus plate.
Requests ==
    {AnalyzeRequest(d, k, Null) : d \in Descriptions, k \in KnownFields}
    \cup {AnalyzeRequest(D_plain, k, t) : k \in KnownFields, t \in SubmissionTimes}
    \cup {AnalyzeRequest(D_late, EmptyDict, Str(V_iso)),
          AnalyzeRequest(D_plain, Dict(<<K_bus_plates>>, <<Str(V_plate)>>), Null)}

\* A generated tuple with a route, a real time and a valid place, and one
\* with a plate only and a placeholder time.
TuplePool ==
    { Dict(<<K_objects, K_time, K_place, K_aspects>>,
           <<List(<<Dict(<<K_type, K_value>>, <<Str(S_route), Str(V_12)>>)>>),
             Str(V_0830),
             Dict(<<K_kind, K_value>>, <<Str(S_stop), Str(V_abaya)>>),
             List(<<Str(S_safety)>>)>>),
      Dict(<<K_objects, K_time>>,
           <<List(<<Dict(<<K_type, K_value>>, <<Str(S_bus_plate), Str(V_plate)>>)>>),
             Str(V_Unknown)>>) }

DeclaredPool == {Str(K_reported_time), Str(V_color)}

\* An entry of a generated object, left out when absent.
Entry(present, key, value) ==
    IF present THEN Dict(<<key>>, <<value>>) ELSE EmptyDict
Merge(a, b) == Dict(a.keys \o b.keys, a.items \o b.items)

GenObjects ==
    { Merge(Merge(Entry(need, K_need_clarification, Bool(TRUE)),
                  Entry(TRUE, K_missing_slots, List(declared))),
            Merge(Entry(TRUE, K_tuples, List(tuples)),
                  Entry(asked, K_clarifying_question_ru, Str(V_question)))) :
        need \in BOOLEAN, asked \in BOOLEAN,
        declared \in SeqsUpTo(DeclaredPool, MaxDeclared),
        tuples \in SeqsUpTo(TuplePool, MaxTuples) }

\* Generated objects with fields missing or of the wrong type: values out of
\* the enumerations, a tuple that is not an object, an object with no type,
\* counts that are negative, texts or booleans; an object that declares a
\* slot twice; and one that declares reported_time with a tuple of no time.
MalformedObjects ==
    { Dict(<<K_need_clarification, K_missing_slots, K_priority, K_language, K_tuples,
             K_aspects_count, K_recommendation_kk, K_extracted_fields,
             K_clarifying_question_kk>>,
           <<Str(V_yes),
             Str(K_places),
             Str(V_URGENT),
             Str(V_RU),
             List(<<Dict(<<K_objects, K_time, K_place, K_aspects>>,
                         <<List(<<Dict(<<K_type, K_value>>, <<Str(V_tram), Str(V_3)>>),
                                  Dict(<<K_value>>, <<Str(V_12_padded)>>),
                                  Dict(<<K_type, K_value>>, <<Str(S_route), Str(<<>>)>>)>>),
                           Str(V_spaces),
                           Dict(<<K_kind, K_value>>, <<Str(V_city), Str(V_astana)>>),
                           List(<<Str(V_speed), Str(S_safety)>>)>>),
                    Str(V_junk)>>),
             Dict(<<S_safety, S_staff, S_other>>, <<Num(0 - 1), Str(V_2), Num(0)>>),
             Num(5),
             Dict(<<K_route_numbers, K_places>>, <<List(<<Num(12)>>), Str(V_abaya)>>),
             Str(V_spaces)>>),
      Dict(<<K_priority, K_tuples, K_aspects_count>>,
           <<Num(3), Str(V_junk), Dict(<<S_staff, S_safety>>, <<Num(2), Bool(TRUE)>>)>>),
      Dict(<<K_missing_slots, K_tuples>>,
           <<List(<<Str(V_color), Str(K_route_numbers), Str(V_color), Str(K_places)>>),
             List(<<Dict(<<K_objects, K_time>>,
                         <<List(<<Dict(<<K_type, K_value>>, <<Str(S_bus_plate), Str(V_plate)>>)>>),
                           Str(V_Unknown)>>)>>)>>),
      Dict(<<K_missing_slots, K_tuples>>,
           <<List(<<Str(K_reported_time)>>),
             List(<<Dict(<<K_objects>>,
                         <<List(<<Dict(<<K_type, K_value>>, <<Str(S_route), Str(V_12)>>)>>)>>)>>)>>) }

\* The texts the generation engine may return: each object as JSON, one
\* object after explanatory text, the same object before further text that
\* holds a "}", and an object with a key the response schema does not have.
FollowedOutput == JsonText(Dict(<<K_priority>>, <<Str(S_high)>>)) \o V_tail
RawOutputs ==
    {JsonText(o) : o \in GenObjects \cup MalformedObjects}
    \cup {V_prefix \o JsonText(Dict(<<K_priority>>, <<Str(S_high)>>))}
    \cup {FollowedOutput, JsonText(Dict(<<V_summary>>, <<Str(V_no_json)>>))}

\* ------------------------------------------------------------ controller

\* One request to POST /analyze, from its arrival to the HTTP answer.
\*   payload         the request
\*   LLM_DISABLED    the switch read from the environment at start-up
\*   pc              where the handler stands: "request", "generate_1",
\*                   "validate_1", "generate_2", "validate_2", "fallback", "done"
\*   messages        _call_model's first transcript (<<>> before it is built)
\*   retry_messages  _call_model's retry transcript (<<>> before it is built)
\*   raw_output, retry_output   what the two generation calls returned
\*   calls           the transcripts _generate_response was called with
\*   log             what ran, in order: "generate" for a generation call that
\*                   returned, "raise" for one that raised, "fallback" for a
\*                   run of the fallback analyser
\*   response        the body of the answer (None before the answer, and
\*                   when the answer is an error)
\*   status          "pending", or the HTTP status of the answer
VARIABLES payload, LLM_DISABLED, pc, messages, retry_messages, raw_output,
          retry_output, calls, log, response, status

\* Several requests served at once, each by a thread of the pool that
\* run_in_threadpool uses, all on the one engine that _load_model caches.
\*   threads     for each thread, the request it serves and where
\*               _call_model stands for it (<<>> when one request is followed)
\*   in_flight   the threads that are inside model.generate
VARIABLES threads, in_flight

\* The engine behind lru_cache(maxsize=1): _load_tokenizer and _load_model.
\*   engine    "absent" until a call of the loader has returned, then "cached"
\*   loading   the threads inside the body of the loader
\*   loads     how many times the body of the loader has been entered
VARIABLES engine, loading, loads

\* _extract_json called on one text.
\*   output_text   the text it is called with
\*   extraction    NotExtracted before the call, then what it returned:
\*                 [ok, v], ok = FALSE for the ValueError it raises
VARIABLES output_text, extraction

NotExtracted == [ok |-> FALSE, v |-> Null, i |-> 0 - 1]

\* The Telegram bot serving one chat.
\*   session   the SessionState kept in context.user_data["session"]
\*   running   the handlers of the chat that have started and wait for an
\*             answer of the backend, each with the call it awaits
\*   chat      what the chat holds: the preview messages whose buttons can
\*             still be pressed, and the clarification answers the user has
\*             sent since the last description
VARIABLES session, running, chat

\* SessionState(language=...): the defaults of the dataclass.
SessionState(language) ==
    [language |-> language, stage |-> "description", description |-> Null,
     submission_time |-> Null, known_fields |-> EmptyDict, clarifications |-> EmptyDict,
     pending_slot |-> Null, analysis |-> Null, media |-> <<>>,
     reanalysis_in_progress |-> FALSE, last_answer_slot |-> Null]

\* get_session on a chat that has none yet, before any update.
NoSession ==
    /\ session = SessionState("kk")
    /\ running = <<>>
    /\ chat = [previews |-> 0, answers |-> 0]

\* What a step of one request leaves alone, and what a step of the thread
\* pool leaves alone besides the variables of one request.
outside_pool == <<output_text, extraction, session, running, chat>>
outside_request == <<threads, in_flight, engine, loading, loads, outside_pool>>

vars == <<payload, LLM_DISABLED, pc, messages, retry_messages, raw_output,
          retry_output, calls, log, response, status, threads, in_flight,
          engine, loading, loads, outside_pool>>

\* A process that has not loaded the engine.
NotLoaded == engine = "absent" /\ loading = {} /\ loads = 0

\* No text is being extracted from: the state of the variables above while
\* requests are followed.
NoExtraction == output_text = <<>> /\ extraction = NotExtracted

Init ==
    /\ payload \in Requests
    /\ LLM_DISABLED \in BOOLEAN
    /\ pc = "request"
    /\ messages = <<>>
    /\ retry_messages = <<>>
    /\ raw_output = <<>>
    /\ retry_output = <<>>
    /\ calls = <<>>
    /\ log = <<>>
    /\ response = Null
    /\ status = "pending"
    /\ threads = <<>>
    /\ in_flight = {}
    /\ NotLoaded
    /\ NoExtraction
    /\ NoSession

\* analyze, up to the first generation call: a blank description is answered
\* with 400; _call_model goes to the fallback when the generator is disabled
\* and builds the transcript otherwise.
Analyze ==
    /\ pc = "request"
    /\ UNCHANGED outside_request
    /\ IF Strip(payload.description) = <<>>
       THEN /\ pc' = "done"
            /\ status' = "400"
            /\ UNCHANGED messages
       ELSE IF LLM_DISABLED
       THEN /\ pc' = "fallback"
            /\ UNCHANGED <<status, messages>>
       ELSE /\ pc' = "generate_1"
            /\ messages' = _build_messages(payload)
            /\ UNCHANGED status
    /\ UNCHANGED <<payload, LLM_DISABLED, retry_messages, raw_output, retry_output,
                   calls, log, response>>

\* _generate_response(messages) returns a text.
Generate1 ==
    /\ pc = "generate_1"
    /\ UNCHANGED outside_request
    /\ \E raw \in RawOutputs : raw_output' = raw
    /\ calls' = Append(calls, messages)
    /\ log' = Append(log, "generate")
    /\ pc' = "validate_1"
    /\ UNCHANGED <<payload, LLM_DISABLED, messages, retry_messages, retry_output,
                   response, status>>

\* A faulty controller: an exception of _generate_response is caught and
\* the fallback analyser answers.
GenerateMasked ==
    /\ pc \in {"generate_1", "generate_2"}
    /\ UNCHANGED outside_request
    /\ calls' = Append(calls, IF pc = "generate_1" THEN messages ELSE retry_messages)
    /\ log' = Append(log, "raise")
    /\ pc' = "fallback"
    /\ UNCHANGED <<payload, LLM_DISABLED, messages, retry_messages, raw_output,
                   retry_output, response, status>>

\* _generate_response raises (the engine cannot be loaded or fails): the
\* exception leaves _call_model and analyze answers 500.
GenerateRaises ==
    /\ pc \in {"generate_1", "generate_2"}
    /\ UNCHANGED outside_request
    /\ calls' = Append(calls, IF pc = "generate_1" THEN messages ELSE retry_messages)
    /\ log' = Append(log, "raise")
    /\ pc' = "done"
    /\ status' = "500"
    /\ UNCHANGED <<payload, LLM_DISABLED, messages, retry_messages, raw_output,
                   retry_output, response>>

\* data = _normalize_model_payload(_extract_json(raw), payload), then
\* AnalyzeResponse.model_validate(data): [ok, v], ok = FALSE when either raises.
Validated(extracted, request) ==
    IF ~extracted.ok THEN Invalid
    ELSE AnalyzeResponse(_normalize_model_payload(extracted.v, request))
Attempt(raw, request) == Validated(_extract_json(raw), request)

\* A faulty first try block: the retry transcript is built whatever the first
\* output is.
Validate1Retrying ==
    /\ pc = "validate_1"
    /\ UNCHANGED outside_request
    /\ retry_messages' = RetryMessages(messages, raw_output)
    /\ pc' = "generate_2"
    /\ UNCHANGED <<payload, LLM_DISABLED, messages, raw_output, retry_output, calls, log,
                   response, status>>

\* The first try block: the validated response is returned, or the retry
\* transcript is built.
Validate1 ==
    /\ pc = "validate_1"
    /\ UNCHANGED outside_request
    /\ \E attempt \in {Attempt(raw_output, payload)} :
          IF attempt.ok
          THEN /\ response' = attempt.v
               /\ status' = "200"
               /\ pc' = "done"
               /\ UNCHANGED retry_messages
          ELSE /\ retry_messages' = RetryMessages(messages, raw_output)
               /\ pc' = "generate_2"
               /\ UNCHANGED <<response, status>>
    /\ UNCHANGED <<payload, LLM_DISABLED, messages, raw_output, retry_output, calls, log>>

\* _generate_response(retry_messages) returns a text.
Generate2 ==
    /\ pc = "generate_2"
    /\ UNCHANGED outside_request
    /\ \E raw \in RawOutputs : retry_output' = raw
    /\ calls' = Append(calls, retry_messages)
    /\ log' = Append(log, "generate")
    /\ pc' = "validate_2"
    /\ UNCHANGED <<payload, LLM_DISABLED, messages, retry_messages, raw_output,
                   response, status>>

\* The second try block: the validated response is returned, or the
\* fallback analyser is called.
Validate2 ==
    /\ pc = "validate_2"
    /\ UNCHANGED outside_request
    /\ \E attempt \in {Attempt(retry_output, payload)} :
          IF attempt.ok
          THEN /\ response' = attempt.v
               /\ status' = "200"
               /\ pc' = "done"
          ELSE /\ pc' = "fallback"
               /\ UNCHANGED <<response, status>>
    /\ UNCHANGED <<payload, LLM_DISABLED, messages, retry_messages, raw_output,
                   retry_output, calls, log>>

\* return _fallback_analysis(payload): its response is the answer; an
\* exception it raises leaves _call_model and analyze answers 500.
Fallback ==
    /\ pc = "fallback"
    /\ UNCHANGED outside_request
    /\ \E result \in {_fallback_analysis(payload)} :
          IF result.ok
          THEN /\ response' = result.v
               /\ status' = "200"
          ELSE /\ status' = "500"
               /\ UNCHANGED response
    /\ log' = Append(log, "fallback")
    /\ pc' = "done"
    /\ UNCHANGED <<payload, LLM_DISABLED, messages, retry_messages, raw_output,
                   retry_output, calls>>

Next ==
    \/ Analyze
    \/ Generate1
    \/ GenerateRaises
    \/ Validate1
    \/ Generate2
    \/ Validate2
    \/ Fallback

Spec == Init /\ [][Next]_vars

\* The same handler with its scheduling. The event loop and the thread pool
\* run analyze and _call_model whenever they stand at a step of their own
\* (Analyze, the two try blocks, the fallback analyser), and each of these
\* steps is enabled by its program point alone and leaves it: the fairness is
\* stated on pc. At the two generation steps the handler is blocked inside
\* model.generate, which is called with no timeout and which nothing in the
\* handler interrupts: whether the call returns is the engine's affair, and
\* no fairness is stated for it.
ProgramPoints ==
    {"request", "generate_1", "validate_1", "generate_2", "validate_2", "fallback", "done"}
HandlerPoints == {"request", "validate_1", "validate_2", "fallback"}
Scheduled(p) == pc = p /\ pc' \in ProgramPoints \ {p}
LiveRequests ==
    { AnalyzeRequest(D_late, EmptyDict, Str(V_iso)),
      AnalyzeRequest(D_plain, Dict(<<K_reported_time>>, <<Str(V_0830)>>), Null),
      AnalyzeRequest(D_blank, EmptyDict, Null) }
LiveInit == Init /\ payload \in LiveRequests
LiveSpec ==
    /\ LiveInit
    /\ [][Next]_vars
    /\ \A p \in HandlerPoints : WF_pc(Scheduled(p))

\* ------------------------------------------------- concurrent requests

\* The number of requests served at once.
MaxThreads == 2
Threads == 1..MaxThreads

\* The requests and the generator outputs of the concurrent runs: two
\* requests with different answers; an output that is accepted ("{}") and
\* one that is rejected.
ConcRequests ==
    { AnalyzeRequest(D_blank, EmptyDict, Null),
      AnalyzeRequest(D_plain, EmptyDict, Null),
      AnalyzeRequest(D_stop_kk, Dict(<<K_reported_time>>, <<Str(V_0830)>>), Str(V_iso)) }
ConcOutputs == {JsonText(EmptyDict), V_no_json}

\* A thread that has just been given a request. Its fields are the local
\* variables of analyze and _call_model, as in the variables above.
NewThread(request) ==
    [payload |-> request, pc |-> "request", raw_output |-> <<>>, retry_output |-> <<>>,
     log |-> <<>>, response |-> Null, status |-> "pending"]

\* The variables that follow one request stay as they are.
OneRequestIdle ==
    UNCHANGED <<payload, pc, messages, retry_messages, raw_output, retry_output, calls, log,
                response, status, outside_pool>>

ConcInit ==
    /\ threads \in [Threads -> {NewThread(r) : r \in ConcRequests}]
    /\ in_flight = {}
    /\ NotLoaded
    /\ NoExtraction
    /\ NoSession
    /\ LLM_DISABLED \in BOOLEAN
    /\ payload = AnalyzeRequest(<<>>, EmptyDict, Null)
    /\ pc = "idle"
    /\ messages = <<>>
    /\ retry_messages = <<>>
    /\ raw_output = <<>>
    /\ retry_output = <<>>
    /\ calls = <<>>
    /\ log = <<>>
    /\ response = Null
    /\ status = "pending"

\* analyze and the start of _call_model, in the thread w.
Accept(w) ==
    /\ threads[w].pc = "request"
    /\ threads' =
          [threads EXCEPT ![w] =
              IF Strip(@.payload.description) = <<>>
              THEN [@ EXCEPT !.pc = "done", !.status = "400"]
              ELSE [@ EXCEPT !.pc = IF LLM_DISABLED THEN "fallback" ELSE "generate_1"]]
    /\ UNCHANGED <<LLM_DISABLED, in_flight, engine, loading, loads>>
    /\ OneRequestIdle

\* _generate_response calls the loader and the cache has no engine: the
\* thread enters the body of the loader. lru_cache holds no lock while the
\* body runs, so a thread that asks before a call has returned enters too.
StartLoad(w) ==
    /\ threads[w].pc \in {"generate_1", "generate_2"}
    /\ w \notin loading
    /\ engine = "absent"
    /\ loading' = loading \cup {w}
    /\ loads' = loads + 1
    /\ UNCHANGED <<threads, LLM_DISABLED, in_flight, engine>>
    /\ OneRequestIdle

\* The body of the loader returns and lru_cache keeps what it returned.
FinishLoad(w) ==
    /\ w \in loading
    /\ loading' = loading \ {w}
    /\ engine' = "cached"
    /\ UNCHANGED <<threads, LLM_DISABLED, in_flight, loads>>
    /\ OneRequestIdle

\* _generate_response up to model.generate, with the engine the loader
\* call returned: nothing is waited for, the thread enters the engine.
EnterGenerate(w) ==
    /\ threads[w].pc \in {"generate_1", "generate_2"}
    /\ w \notin loading
    /\ engine = "cached"
    /\ threads' = [threads EXCEPT ![w].pc =
                      IF @ = "generate_1" THEN "generating_1" ELSE "generating_2"]
    /\ in_flight' = in_flight \cup {w}
    /\ UNCHANGED <<LLM_DISABLED, engine, loading, loads>>
    /\ OneRequestIdle

\* model.generate returns and _generate_response returns the decoded text.
ReturnGenerate(w) ==
    /\ threads[w].pc \in {"generating_1", "generating_2"}
    /\ \E raw \in ConcOutputs :
          threads' =
              [threads EXCEPT ![w] =
                  IF @.pc = "generating_1"
                  THEN [@ EXCEPT !.raw_output = raw, !.pc = "validate_1",
                                 !.log = Append(@, "generate")]
                  ELSE [@ EXCEPT !.retry_output = raw, !.pc = "validate_2",
                                 !.log = Append(@, "generate")]]
    /\ in_flight' = in_flight \ {w}
    /\ UNCHANGED <<LLM_DISABLED, engine, loading, loads>>
    /\ OneRequestIdle

\* model.generate raises: analyze answers 500.
RaiseGenerate(w) ==
    /\ threads[w].pc \in {"generating_1", "generating_2"}
    /\ threads' = [threads EXCEPT ![w] =
                      [@ EXCEPT !.pc = "done", !.status = "500", !.log = Append(@, "raise")]]
    /\ in_flight' = in_flight \ {w}
    /\ UNCHANGED <<LLM_DISABLED, engine, loading, loads>>
    /\ OneRequestIdle

\* The two try blocks of _call_model, in the thread w.
ConcValidate(w) ==
    /\ threads[w].pc \in {"validate_1", "validate_2"}
    /\ \E attempt \in {Attempt(IF threads[w].pc = "validate_1"
                               THEN threads[w].raw_output ELSE threads[w].retry_output,
                               threads[w].payload)} :
          threads' =
              [threads EXCEPT ![w] =
                  IF attempt.ok
                  THEN [@ EXCEPT !.response = attempt.v, !.status = "200", !.pc = "done"]
                  ELSE [@ EXCEPT !.pc = IF @ = "validate_1" THEN "generate_2" ELSE "fallback"]]
    /\ UNCHANGED <<LLM_DISABLED, in_flight, engine, loading, loads>>
    /\ OneRequestIdle

\* A faulty fallback: the answer of a request served before is kept in a
\* module variable and returned again.
ConcFallbackCached(w) ==
    /\ threads[w].pc = "fallback"
    /\ \E result \in {_fallback_analysis(threads[w].payload)} :
          threads' =
              [threads EXCEPT ![w] =
                  IF \E v \in Threads : threads[v].status = "200"
                  THEN [@ EXCEPT !.response =
                                     threads[CHOOSE v \in Threads : threads[v].status = "200"].response,
                                 !.status = "200", !.pc = "done",
                                 !.log = Append(@, "fallback")]
                  ELSE IF result.ok
                  THEN [@ EXCEPT !.response = result.v, !.status = "200", !.pc = "done",
                                 !.log = Append(@, "fallback")]
                  ELSE [@ EXCEPT !.status = "500", !.pc = "done",
                                 !.log = Append(@, "fallback")]]
    /\ UNCHANGED <<LLM_DISABLED, in_flight, engine, loading, loads>>
    /\ OneRequestIdle

\* return _fallback_analysis(payload), in the thread w.
ConcFallback(w) ==
    /\ threads[w].pc = "fallback"
    /\ \E result \in {_fallback_analysis(threads[w].payload)} :
          threads' =
              [threads EXCEPT ![w] =
                  IF result.ok
                  THEN [@ EXCEPT !.response = result.v, !.status = "200", !.pc = "done",
                                 !.log = Append(@, "fallback")]
                  ELSE [@ EXCEPT !.status = "500", !.pc = "done",
                                 !.log = Append(@, "fallback")]]
    /\ UNCHANGED <<LLM_DISABLED, in_flight, engine, loading, loads>>
    /\ OneRequestIdle

ConcNext ==
    \E w \in Threads :
        \/ Accept(w)
        \/ StartLoad(w)
        \/ FinishLoad(w)
        \/ EnterGenerate(w)
        \/ ReturnGenerate(w)
        \/ RaiseGenerate(w)
        \/ ConcValidate(w)
        \/ ConcFallback(w)

ConcSpec == ConcInit /\ [][ConcNext]_vars

\* ------------------------------------------------------------ properties

\* What the properties below observe of a run.
Last(seq) == seq[Len(seq)]
\* analyze answered with a response body.
Returned == pc = "done" /\ status = "200"
\* The fallback analyser ran (it runs last when it runs).
FallbackRan == log # <<>> /\ Last(log) = "fallback"
\* A generation call raised.
TransportError == InSeq("raise", log)
\* The response is the validated output of a generation call, and the object
\* extracted from that output.
GeneratorAnswered == Returned /\ log # <<>> /\ Last(log) = "generate"
Generated == _extract_json(IF Len(calls) = 2 THEN retry_output ELSE raw_output).v
\* Fields of the response.
MissingSlots == Get(response, K_missing_slots).items
NeedClarification == Get(response, K_need_clarification) = Bool(TRUE)
Declares(slot) == InSeq(Str(slot), MissingSlots)
NotBlank == Strip(payload.description) # <<>>

\* C1: in every returned result (generator path and fallback path, both
\* through the Enforcer) missing_slots is the empty list if and only if
\* need_clarification is false, whatever the generator declared.
C1_MissingSlotsIffNoNeed ==
    Returned => ((MissingSlots = <<>>) <=> (Get(response, K_need_clarification) = Bool(FALSE)))

\* The generator declared need_clarification with no missing slot and every
\* mandatory fact is met: the Enforcer answers need_clarification = false.
C1_Witness ==
    /\ GeneratorAnswered
    /\ Get(Generated, K_need_clarification) = Bool(TRUE)
    /\ Get(Generated, K_missing_slots) = List(<<>>)
    /\ MissingSlots = <<>>
    /\ Get(response, K_need_clarification) = Bool(FALSE)

\* C2: in every returned result, a mandatory fact whose candidate set is
\* empty has its slot in missing_slots and need_clarification is true; a
\* result of the fallback analyser is one the Enforcer leaves as it is.
C2_UnmetFactIsMissing ==
    Returned =>
        /\ RouteCandidates(response, payload) = {}
              => Declares(K_route_numbers) /\ NeedClarification
        /\ PlaceCandidates(response, payload) = {}
              => Declares(K_places) /\ NeedClarification
        /\ TimeCandidates(response, payload) = {}
              => Declares(K_reported_time) /\ NeedClarification
        /\ FallbackRan => _enforce_mandatory_slots(response, payload) = response

\* The fallback analyser found a route but there is no place: places is
\* declared missing in what it returns.
C2_Witness ==
    /\ Returned
    /\ FallbackRan
    /\ RouteCandidates(response, payload) # {}
    /\ PlaceCandidates(response, payload) = {}
    /\ Declares(K_places)
    /\ NeedClarification

\* C3: for a request with a non-blank description, when no generation call
\* raises (generation disabled included), analyze ends with a response and
\* not with an error.
C3_FailsOnlyOnTransportError ==
    (pc = "done" /\ NotBlank /\ ~TransportError) => (status = "200" /\ response # Null)

\* C4: generation enabled and both outputs rejected: exactly two generation
\* calls, then the fallback analyser, whose result is returned without an
\* error.
C4_TwoRejectionsThenFallback ==
    (/\ ~LLM_DISABLED
     /\ pc = "done"
     /\ Len(log) >= 2 /\ log[1] = "generate" /\ log[2] = "generate"
     /\ ~Attempt(raw_output, payload).ok
     /\ ~Attempt(retry_output, payload).ok)
    => (/\ log = <<"generate", "generate", "fallback">>
        /\ Len(calls) = 2
        /\ status = "200"
        /\ response # Null)

\* C5: generation enabled and the first output extracts, normalises and
\* validates: the handler is done after exactly one generation call, with no
\* retry transcript, no second output and no fallback run, and the response
\* is the normalised and validated first output.
C5_FirstOutputAccepted ==
    (/\ ~LLM_DISABLED
     /\ log # <<>> /\ log[1] = "generate"
     /\ pc # "validate_1"
     /\ Attempt(raw_output, payload).ok)
    => (/\ pc = "done"
        /\ log = <<"generate">>
        /\ calls = <<messages>>
        /\ retry_messages = <<>>
        /\ retry_output = <<>>
        /\ status = "200"
        /\ response = Attempt(raw_output, payload).v)

\* The first output, which names no priority, was accepted: the response is
\* its normalisation, with the default priority.
C5_Witness ==
    /\ Returned
    /\ log = <<"generate">>
    /\ ~HasKey(Generated, K_priority)
    /\ response = Attempt(raw_output, payload).v
    /\ Get(response, K_priority) = Str(S_medium)

\* C6: generation disabled: no generation call, no transcript, the fallback
\* analyser runs at once and its enforced result is returned.
C6_DisabledGoesToFallback ==
    (LLM_DISABLED /\ pc = "done" /\ NotBlank)
    => (/\ calls = <<>>
        /\ messages = <<>>
        /\ retry_messages = <<>>
        /\ log = <<"fallback">>
        /\ status = "200"
        /\ response = _fallback_analysis(payload).v)

\* C7: once a generation call has raised (the first, or the second after a
\* rejected first output) nothing runs after it, neither a generation call
\* nor the fallback analyser, and analyze ends with status 500 and no
\* response.
C7_TransportErrorNotMasked ==
    TransportError
    => (/\ pc = "done"
        /\ status = "500"
        /\ response = Null
        /\ Last(log) = "raise"
        /\ ~InSeq("fallback", log)
        /\ Len(calls) = Len(log))

\* The first output was rejected and the second generation call raised.
C7_Witness ==
    /\ log = <<"generate", "raise">>
    /\ ~Attempt(raw_output, payload).ok
    /\ calls = <<messages, retry_messages>>
    /\ status = "500"

\* C8: whenever the fallback analyser has run, it returned a schema-valid
\* response (it did not raise).
C8_FallbackTotal ==
    FallbackRan => (status = "200" /\ AnalyzeResponse(response).ok)

\* The question the generator supplied under key, trimmed; empty when it
\* supplied none or when the fallback analyser answered.
Supplied(key) ==
    IF GeneratorAnswered THEN _ensure_string(Get(Generated, key), <<>>) ELSE <<>>
KeptQuestion(key) == IF Supplied(key) = <<>> THEN Null ELSE Str(Supplied(key))

TupleTimes == {Get(t, K_time).s : t \in Range(Get(response, K_tuples).items)}

\* C10: when the time of every tuple, lower-cased, is one of the placeholder
\* times and the known facts carry neither reported_time nor time,
\* reported_time is in missing_slots and need_clarification is true.
C10_SentinelTimeIsNoTime ==
    (/\ Returned
     /\ \A time \in TupleTimes : Lower(time) \in SENTINEL_TIMES
     /\ ~HasKey(payload.known_fields, K_reported_time)
     /\ ~HasKey(payload.known_fields, K_time))
    => (Declares(K_reported_time) /\ NeedClarification)

\* The one tuple of the response has the time "Unknown" and the known facts
\* have no time: reported_time is declared missing.
C10_Witness ==
    /\ Returned
    /\ TupleTimes = {V_Unknown}
    /\ ~HasKey(payload.known_fields, K_reported_time)
    /\ ~HasKey(payload.known_fields, K_time)
    /\ Declares(K_reported_time)
    /\ NeedClarification

\* The tuples of the response; the first output as parsed, and the
\* normalisation of a parsed output.
Tuples == Get(response, K_tuples).items
FirstParsed == _extract_json(raw_output)
NormalizedOf(parsed) == _normalize_model_payload(parsed.v, payload)
FirstReturned == log # <<>> /\ log[1] = "generate" /\ pc # "validate_1"

\* C11: in every returned result aspects_count has exactly the seven aspect
\* names as keys, each with an integer >= 0, and some count is positive
\* whenever a tuple has a non-empty aspects list.
C11_AspectsCountShape ==
    Returned =>
        LET counts == Get(response, K_aspects_count)
        IN /\ IsDict(counts)
           /\ Len(counts.keys) = Len(ASPECT_NAMES)
           /\ Range(counts.keys) = Range(ASPECT_NAMES)
           /\ \A i \in 1..Len(counts.items) :
                 counts.items[i].t = "int" /\ counts.items[i].n >= 0
           /\ (\E i \in 1..Len(Tuples) : Get(Tuples[i], K_aspects).items # <<>>)
                 => \E i \in 1..Len(counts.items) : counts.items[i].n > 0

\* The generator gave a negative count and a count that is a text, none
\* positive: the response counts the one aspect of its tuple instead.
C11_Witness ==
    /\ GeneratorAnswered
    /\ Get(Get(Generated, K_aspects_count), S_safety) = Num(0 - 1)
    /\ Get(Get(Generated, K_aspects_count), S_staff) = Str(V_2)
    /\ Len(Tuples) = 1
    /\ Get(Get(response, K_aspects_count), S_safety) = Num(1)
    /\ Get(Get(response, K_aspects_count), S_staff) = Num(0)

\* C12: in every returned result priority and language are enumerated
\* values, every tuple object has type route or bus_plate and a non-empty
\* value, every place that is present has an enumerated kind and a
\* non-empty value, and every aspects list is non-empty and made of the
\* seven aspect names.
C12_EnumeratedValues ==
    Returned =>
        /\ IsStr(Get(response, K_priority))
        /\ InSeq(Get(response, K_priority).s, PRIORITY_VALUES)
        /\ IsStr(Get(response, K_language))
        /\ Get(response, K_language).s \in {S_kk, S_ru}
        /\ \A i \in 1..Len(Tuples) :
              /\ \A obj \in Range(Get(Tuples[i], K_objects).items) :
                    /\ Get(obj, K_type).s \in TUPLE_OBJECT_TYPES
                    /\ IsStr(Get(obj, K_value)) /\ Get(obj, K_value).s # <<>>
              /\ \/ Get(Tuples[i], K_place) = Null
                 \/ /\ Get(Get(Tuples[i], K_place), K_kind).s \in PLACE_KINDS
                    /\ IsStr(Get(Get(Tuples[i], K_place), K_value))
                    /\ Get(Get(Tuples[i], K_place), K_value).s # <<>>
              /\ Get(Tuples[i], K_aspects).items # <<>>
              /\ \A a \in Range(Get(Tuples[i], K_aspects).items) :
                    IsStr(a) /\ InSeq(a.s, ASPECT_NAMES)

\* The generator wrote priority "URGENT", language "RU", an object of type
\* "tram", a place of kind "city" and the aspect "speed": the response has
\* medium, ru, the one route object, no place and the aspect safety.
C12_Witness ==
    /\ GeneratorAnswered
    /\ Get(Generated, K_priority) = Str(V_URGENT)
    /\ Get(Generated, K_language) = Str(V_RU)
    /\ Get(response, K_priority) = Str(S_medium)
    /\ Get(response, K_language) = Str(S_ru)
    /\ Len(Tuples) = 1
    /\ Get(Tuples[1], K_objects) =
          List(<<Dict(<<K_type, K_value>>, <<Str(S_route), Str(V_12)>>)>>)
    /\ Get(Tuples[1], K_place) = Null
    /\ Get(Tuples[1], K_aspects) = List(<<Str(S_safety)>>)

\* C13: whenever the first output parses to an object, its normalisation
\* passes the schema validation and no retry transcript is built.
C13_NormalizerNeverRejects ==
    FirstReturned =>
        \A parsed \in {FirstParsed} :
            parsed.ok => (Validated(parsed, payload).ok /\ retry_messages = <<>>)

\* C14: normalising the normalisation of a parsed object, with the same
\* request, gives the same record.
C14_NormalizerIdempotent ==
    pc = "validate_1" =>
        \A parsed \in {FirstParsed} :
            parsed.ok =>
                \A normalized \in {NormalizedOf(parsed)} :
                    _normalize_model_payload(normalized, payload) = normalized

\* An object that normalisation changes (an unknown priority, counts to
\* tally) and whose normalisation is left as it is by a second one.
C14_Witness ==
    /\ pc = "validate_1"
    /\ \E parsed \in {FirstParsed} :
          /\ parsed.ok
          /\ Get(parsed.v, K_priority) = Str(V_URGENT)
          /\ \E normalized \in {NormalizedOf(parsed)} :
                /\ normalized # parsed.v
                /\ Get(normalized, K_priority) = Str(S_medium)
                /\ Get(Get(normalized, K_aspects_count), S_safety) = Num(1)
                /\ _normalize_model_payload(normalized, payload) = normalized

\* The fallback analyser answered; the route numbers it extracted.
FallbackAnswered == Returned /\ FallbackRan
ExtractedRoutes == Get(Get(response, K_extracted_fields), K_route_numbers)

\* C15 (scenario A): generation disabled, the description "Автобус №12
\* опоздал на 20 минут", no known facts and the submission timestamp
\* 2025-01-01T08:00:00+05:00: the answer has priority medium, one tuple with
\* the aspects [punctuality], the one route object 12 and the submission
\* timestamp as time, extracted route_numbers ["12"], missing_slots
\* ["places"] and need_clarification true.
C15_ScenarioA ==
    (/\ LLM_DISABLED
     /\ payload = AnalyzeRequest(D_late, EmptyDict, Str(V_iso))
     /\ pc = "done")
    => (/\ status = "200"
        /\ Get(response, K_priority) = Str(S_medium)
        /\ ExtractedRoutes = StrList(<<V_12>>)
        /\ Len(Tuples) = 1
        /\ Get(Tuples[1], K_aspects) = StrList(<<S_punctuality>>)
        /\ Get(Tuples[1], K_objects) =
              List(<<Dict(<<K_type, K_value>>, <<Str(S_route), Str(V_12)>>)>>)
        /\ Get(Tuples[1], K_time) = Str(V_iso)
        /\ MissingSlots = <<Str(K_places)>>
        /\ NeedClarification)

\* The description has no digit (so no route token and no plate) and no
\* stop keyword.
NothingToExtract ==
    /\ \A i \in 1..Len(payload.description) : ~IsDigit(payload.description[i])
    /\ ~AnyIn(stop_keywords, Lower(payload.description))

\* C16: a result of the fallback analyser has exactly one tuple when its
\* route numbers are not empty and none otherwise; with nothing to extract
\* from the description and no known facts, whatever the submission
\* timestamp, it has no tuple, missing_slots [route_numbers, places,
\* reported_time] and need_clarification true.
C16_FallbackTuples ==
    FallbackAnswered =>
        /\ Len(Tuples) = IF ExtractedRoutes.items # <<>> THEN 1 ELSE 0
        /\ (NothingToExtract /\ payload.known_fields = EmptyDict)
              => /\ Tuples = <<>>
                 /\ MissingSlots = <<Str(K_route_numbers), Str(K_places), Str(K_reported_time)>>
                 /\ NeedClarification

\* Scenario B with a submission timestamp: no tuple, the three slots missing.
C16_Witness ==
    /\ FallbackAnswered
    /\ payload = AnalyzeRequest(D_plain, EmptyDict, Str(V_iso))
    /\ NothingToExtract
    /\ ExtractedRoutes.items = <<>>
    /\ Tuples = <<>>
    /\ MissingSlots = <<Str(K_route_numbers), Str(K_places), Str(K_reported_time)>>
    /\ NeedClarification

\* A keyword of the tier occurs in the description, letter case ignored.
TierMatches(keywords) == AnyIn(keywords, Lower(payload.description))

\* C17: the priority of a fallback result is the highest of critical, high,
\* medium that has a keyword in the description, and low when none has.
C17_TierPrecedence ==
    FallbackAnswered =>
        Get(response, K_priority) =
            Str(IF TierMatches(critical_keywords) THEN S_critical
                ELSE IF TierMatches(high_keywords) THEN S_high
                ELSE IF TierMatches(medium_keywords) THEN S_medium
                ELSE S_low)

\* "АВАРИЯ: автобус опоздал" has a critical keyword (in capitals) and a
\* medium one: the priority is critical.
C17_Witness ==
    /\ FallbackAnswered
    /\ payload.description = D_both
    /\ TierMatches(critical_keywords)
    /\ TierMatches(medium_keywords)
    /\ Get(response, K_priority) = Str(S_critical)

\* The request without the known facts that are neither a str nor a list.
WithoutUnexpected(request) ==
    LET known == request.known_fields
        kept == SelectSeq([i \in 1..Len(known.keys) |-> i],
                          LAMBDA i : IsStr(known.items[i]) \/ IsList(known.items[i]))
    IN AnalyzeRequest(request.description,
                      Dict([j \in 1..Len(kept) |-> known.keys[kept[j]]],
                           [j \in 1..Len(kept) |-> known.items[kept[j]]]),
                      request.submission_time_iso)
UnexpectedFacts ==
    {v \in Range(payload.known_fields.items) : ~(IsStr(v) \/ IsList(v))}

\* C18: in a returned result the known facts that are neither a str nor a
\* list give no candidate to the route, place or time fact and are the time
\* of no tuple.
C18_UnexpectedFactsDropped ==
    Returned =>
        /\ RouteCandidates(response, payload)
              = RouteCandidates(response, WithoutUnexpected(payload))
        /\ PlaceCandidates(response, payload)
              = PlaceCandidates(response, WithoutUnexpected(payload))
        /\ TimeCandidates(response, payload)
              = TimeCandidates(response, WithoutUnexpected(payload))
        /\ \A v \in UnexpectedFacts : PyStr(v) \notin TupleTimes

\* What a thread answered, and what the request and the outcomes of its
\* generation calls alone determine as the answer: the generation calls of a
\* thread are the entries of its log other than the fallback run.
Answered(status_, response_) == [status |-> status_, response |-> response_]
Gens(t) == SelectSeq(t.log, LAMBDA e : e # "fallback")
FallbackAnswer(result) ==
    IF result.ok THEN Answered("200", result.v) ELSE Answered("500", Null)
SecondAnswer(request, gens, second) ==
    IF gens[2] = "raise" THEN Answered("500", Null)
    ELSE IF second.ok THEN Answered("200", second.v)
    ELSE FallbackAnswer(_fallback_analysis(request))
FirstAnswer(request, gens, first, second_output) ==
    IF gens[1] = "raise" THEN Answered("500", Null)
    ELSE IF first.ok THEN Answered("200", first.v)
    ELSE SecondAnswer(request, gens, Attempt(second_output, request))
AnswerOf(t) ==
    IF Strip(t.payload.description) = <<>> THEN Answered("400", Null)
    ELSE IF LLM_DISABLED THEN FallbackAnswer(_fallback_analysis(t.payload))
    ELSE FirstAnswer(t.payload, Gens(t), Attempt(t.raw_output, t.payload), t.retry_output)
SameInputs(t, u) ==
    /\ t.payload = u.payload
    /\ Gens(t) = Gens(u)
    /\ t.raw_output = u.raw_output
    /\ t.retry_output = u.retry_output

\* C19: the answer of a finished request is the one its request and its
\* generator outputs determine, whatever the other threads did; two finished
\* requests with equal requests and equal generator outputs have equal
\* answers; no step changes the request of a thread.
C19_PureAndStateless ==
    /\ [](\A w \in Threads :
             threads[w].pc = "done"
                => Answered(threads[w].status, threads[w].response) = AnswerOf(threads[w]))
    /\ [](\A v, w \in Threads :
             (threads[v].pc = "done" /\ threads[w].pc = "done"
              /\ SameInputs(threads[v], threads[w]))
                => (threads[v].status = threads[w].status
                    /\ threads[v].response = threads[w].response))
    /\ [][\A w \in Threads : threads'[w].payload = threads[w].payload]_vars

\* Two threads served equal requests, the generator gave both a rejected
\* first output and an accepted second one, and both answered the same.
C19_Witness ==
    /\ threads # <<>>
    /\ threads[1].pc = "done" /\ threads[2].pc = "done"
    /\ SameInputs(threads[1], threads[2])
    /\ threads[1].raw_output = V_no_json
    /\ threads[1].log = <<"generate", "generate">>
    /\ threads[1].status = "200"
    /\ threads[1].response # Null
    /\ threads[1].response = threads[2].response

\* C20: at most one thread is inside model.generate at any time.
C20_OneGenerationInFlight == Cardinality(in_flight) <= 1

\* C21: every analyze call eventually completes, with a result or a service
\* error, even when the engine never answers a generation call.
C21_AnalyzeCompletes == <>(pc = "done")

\* The slots the answering stage declared missing before the Enforcer ran:
\* the str elements of the generator's missing_slots, trimmed, the empty ones
\* left out; none on the fallback path.
DeclaredIn(generated) == _ensure_str_list(Get(generated, K_missing_slots))
\* The mandatory slots whose candidate set, in the response, is empty.
UnmetSlots ==
    (IF RouteCandidates(response, payload) = {} THEN {K_route_numbers} ELSE {})
    \cup (IF PlaceCandidates(response, payload) = {} THEN {K_places} ELSE {})
    \cup (IF TimeCandidates(response, payload) = {} THEN {K_reported_time} ELSE {})
\* The declared slots without the mandatory ones that are met.
KeptDeclared(declared, unmet) ==
    SelectSeq(declared, LAMBDA slot : ~InSeq(slot, MANDATORY_SLOTS) \/ slot \in unmet)
\* A sequence without the repetitions of its elements.
FirstOccurrences(seq) ==
    LET first == SelectSeq([i \in 1..Len(seq) |-> i],
                           LAMBDA i : \A j \in 1..(i - 1) : seq[j] # seq[i])
    IN [k \in 1..Len(first) |-> seq[first[k]]]
\* The kept slots, then the unmet mandatory slots not among them.
WithUnmet(kept, unmet) ==
    kept \o SelectSeq(MANDATORY_SLOTS, LAMBDA slot : slot \in unmet /\ ~InSeq(slot, kept))
MissingTexts == [i \in 1..Len(MissingSlots) |-> MissingSlots[i].s]

\* C22 as claimed: the final missing_slots is the declared list with the met
\* mandatory slots removed, every other entry kept in its declared order,
\* followed by the unmet mandatory slots not already present, in the order
\* route_numbers, places, reported_time.
C22_MissingSlotsAsDeclared ==
    GeneratorAnswered =>
        \A generated \in {Generated} :
            \A unmet \in {UnmetSlots} :
                MissingTexts = WithUnmet(KeptDeclared(DeclaredIn(generated), unmet), unmet)

\* C22: the final missing_slots is the declared list with the met mandatory
\* slots removed and each remaining slot kept once, at its first place,
\* followed by the unmet mandatory slots not already present, in the order
\* route_numbers, places, reported_time; on the fallback path, where nothing
\* is declared, it is the unmet mandatory slots in that order.
C22_MissingSlotsOnce ==
    /\ GeneratorAnswered =>
          \A generated \in {Generated} :
              \A unmet \in {UnmetSlots} :
                  MissingTexts =
                      WithUnmet(FirstOccurrences(KeptDeclared(DeclaredIn(generated), unmet)),
                                unmet)
    /\ FallbackAnswered =>
          \A unmet \in {UnmetSlots} : MissingTexts = WithUnmet(<<>>, unmet)

\* The generator declared color, route_numbers, color, places; the known
\* facts give a route and a place and no time: the answer is color (once),
\* then reported_time.
C22_Witness ==
    /\ GeneratorAnswered
    /\ DeclaredIn(Generated) = <<V_color, K_route_numbers, V_color, K_places>>
    /\ UnmetSlots = {K_reported_time}
    /\ MissingTexts = <<V_color, K_reported_time>>

\* The two clarifying questions as they stand before the Enforcer runs: the
\* generator's, trimmed (empty when absent, null or blank); empty on the
\* fallback path.
AskedIn(generated, key) == _ensure_string(Get(generated, key), <<>>)
NothingAsked(generated) ==
    /\ AskedIn(generated, K_clarifying_question_ru) = <<>>
    /\ AskedIn(generated, K_clarifying_question_kk) = <<>>
QuestionRu == Get(response, K_clarifying_question_ru)
QuestionKk == Get(response, K_clarifying_question_kk)
HasTemplate(slot) == slot \in {K_route_numbers, K_places, K_reported_time}

\* C23 as claimed: when the final missing list is not empty and both
\* questions are empty beforehand, both questions are afterwards the template
\* text of the first entry of the list, whatever that entry is.
C23_TemplateOfAnyFirstSlot ==
    (Returned /\ MissingSlots # <<>>) =>
        \A generated \in {IF GeneratorAnswered THEN Generated ELSE EmptyDict} :
            NothingAsked(generated) =>
                /\ IsStr(QuestionRu) /\ QuestionRu.s # <<>>
                /\ IsStr(QuestionKk) /\ QuestionKk.s # <<>>
                /\ QuestionRu = ClarificationTemplate(MissingTexts[1], S_ru)
                /\ QuestionKk = ClarificationTemplate(MissingTexts[1], S_kk)

\* C23: when the final missing list is not empty and both questions are
\* empty beforehand, both questions are afterwards the template text of the
\* first entry of the list if that entry is route_numbers, places or
\* reported_time, and both are null if it is any other identifier; a
\* question the generator supplied is the answer's question, trimmed.
C23_TemplateOfFirstSlot ==
    (Returned /\ MissingSlots # <<>>) =>
        \A generated \in {IF GeneratorAnswered THEN Generated ELSE EmptyDict} :
            /\ (NothingAsked(generated) /\ HasTemplate(MissingTexts[1])) =>
                  /\ IsStr(QuestionRu) /\ QuestionRu.s # <<>>
                  /\ IsStr(QuestionKk) /\ QuestionKk.s # <<>>
                  /\ QuestionRu = ClarificationTemplate(MissingTexts[1], S_ru)
                  /\ QuestionKk = ClarificationTemplate(MissingTexts[1], S_kk)
            /\ (NothingAsked(generated) /\ ~HasTemplate(MissingTexts[1])) =>
                  (QuestionRu = Null /\ QuestionKk = Null)
            /\ AskedIn(generated, K_clarifying_question_ru) # <<>> =>
                  QuestionRu = Str(AskedIn(generated, K_clarifying_question_ru))
            /\ AskedIn(generated, K_clarifying_question_kk) # <<>> =>
                  QuestionKk = Str(AskedIn(generated, K_clarifying_question_kk))

\* The generator declared reported_time and asked nothing, and no time is
\* known: reported_time comes first of several missing slots and both
\* questions are its templates.
C23_Witness ==
    /\ GeneratorAnswered
    /\ NothingAsked(Generated)
    /\ DeclaredIn(Generated) = <<K_reported_time>>
    /\ Len(MissingTexts) > 1
    /\ MissingTexts[1] = K_reported_time
    /\ QuestionRu = Str(T_reported_time_ru)
    /\ QuestionKk = Str(T_reported_time_kk)

\* The tuples of a generated object that are objects themselves, and the
\* text of a value: trimmed, a value that is not a str by its str(), empty
\* for None and for an absent value.
GeneratedTuples(generated) ==
    IF IsList(Get(generated, K_tuples)) THEN SelectSeq(Get(generated, K_tuples).items, IsDict)
    ELSE <<>>
TextOf(v) == _ensure_string(v, <<>>)
\* The first non-empty of the submission timestamp, the known reported_time
\* and the known time, and "unspecified" when there is none.
FirstKnownTime ==
    IF TextOf(payload.submission_time_iso) # <<>> THEN TextOf(payload.submission_time_iso)
    ELSE IF TextOf(Get(payload.known_fields, K_reported_time)) # <<>>
        THEN TextOf(Get(payload.known_fields, K_reported_time))
    ELSE IF TextOf(Get(payload.known_fields, K_time)) # <<>>
        THEN TextOf(Get(payload.known_fields, K_time))
    ELSE S_unspecified

\* C24: each tuple of an answer of the generator has the trimmed time of the
\* generated tuple when that is not blank, and otherwise the first non-empty
\* of the submission timestamp, the known reported_time and the known time,
\* or "unspecified" when all three are empty.
C24_TimeDefaultChain ==
    GeneratorAnswered =>
        \A items \in {GeneratedTuples(Generated)} :
            /\ Len(Tuples) = Len(items)
            /\ \A i \in 1..Len(items) :
                  Get(Tuples[i], K_time) =
                      Str(IF TextOf(Get(items[i], K_time)) # <<>>
                          THEN TextOf(Get(items[i], K_time))
                          ELSE FirstKnownTime)

\* The generated tuple has a blank time, the submission timestamp is blank
\* and the known facts carry time "12" and reported_time "08:30": the tuple
\* gets 08:30.
C24_Witness ==
    /\ GeneratorAnswered
    /\ Len(Tuples) = 1
    /\ \E generated \in {Generated} :
          \E items \in {GeneratedTuples(generated)} :
              Len(items) >= 1 /\ Get(items[1], K_time) = Str(V_spaces)
    /\ payload.submission_time_iso = Str(D_blank)
    /\ Get(payload.known_fields, K_time) = Str(V_12)
    /\ Get(payload.known_fields, K_reported_time) = Str(V_0830)
    /\ Get(Tuples[1], K_time) = Str(V_0830)

\* C25: the time of the tuple of a fallback answer is the value of the
\* Normalizer's default chain for the same request: the first non-empty of
\* the submission timestamp, the known reported_time and the known time, or
\* "unspecified".
C25_FallbackTimeChain ==
    FallbackAnswered =>
        \A i \in 1..Len(Tuples) : Get(Tuples[i], K_time) = Str(FirstKnownTime)

\* The object entries of a generated tuple, and the entries an answer keeps
\* of them when TypeOf gives the type an entry counts with: those with a
\* type of TUPLE_OBJECT_TYPES and a non-empty value, in their order, each
\* as its type and its trimmed value.
GeneratedObjects(item) ==
    IF IsList(Get(item, K_objects)) THEN SelectSeq(Get(item, K_objects).items, IsDict)
    ELSE <<>>
KeptObjects(objs, TypeOf(_)) ==
    LET kept == SelectSeq(objs, LAMBDA obj : /\ TypeOf(obj) \in TUPLE_OBJECT_TYPES
                                              /\ TextOf(Get(obj, K_value)) # <<>>)
    IN [i \in 1..Len(kept) |->
           Dict(<<K_type, K_value>>,
                <<Str(TypeOf(kept[i])), Str(TextOf(Get(kept[i], K_value)))>>)]
\* The type an entry gives, empty when it gives none; and the same with an
\* entry that gives none counted as a route.
GivenType(obj) == TextOf(Get(obj, K_type))
TypeOrRoute(obj) == IF GivenType(obj) = <<>> THEN S_route ELSE GivenType(obj)

\* C26 as claimed: the objects of each tuple of an answer of the generator
\* are the generated entries whose type is route or bus_plate and whose
\* value is not empty, in their order; an entry with a missing or empty type
\* is dropped like one of any other type.
C26_ObjectsOfGivenType ==
    GeneratorAnswered =>
        \A items \in {GeneratedTuples(Generated)} :
            /\ Len(Tuples) = Len(items)
            /\ \A i \in 1..Len(items) :
                  Get(Tuples[i], K_objects).items
                      = KeptObjects(GeneratedObjects(items[i]), GivenType)

\* C26: the objects of each tuple of an answer of the generator are the
\* generated entries whose type is route or bus_plate, an entry with a
\* missing, null or blank type counting as a route, and whose value is not
\* empty, in their order; an entry of any other type is dropped.
C26_ObjectsOfTypeOrRoute ==
    GeneratorAnswered =>
        \A items \in {GeneratedTuples(Generated)} :
            /\ Len(Tuples) = Len(items)
            /\ \A i \in 1..Len(items) :
                  Get(Tuples[i], K_objects).items
                      = KeptObjects(GeneratedObjects(items[i]), TypeOrRoute)

\* The generated tuple has an entry of type tram, an entry " 12 " with no
\* type and a route with an empty value: the answer keeps the route 12 alone.
C26_Witness ==
    /\ GeneratorAnswered
    /\ Len(Tuples) = 1
    /\ \E generated \in {Generated} :
          \E items \in {GeneratedTuples(generated)} :
              /\ Len(items) >= 1
              /\ \E objs \in {GeneratedObjects(items[1])} :
                    /\ Len(objs) = 3
                    /\ GivenType(objs[1]) = V_tram
                    /\ GivenType(objs[2]) = <<>>
    /\ Get(Tuples[1], K_objects) =
          List(<<Dict(<<K_type, K_value>>, <<Str(S_route), Str(V_12)>>)>>)

\* The place a generated tuple gives is usable: an object with a kind of
\* PLACE_KINDS and a non-empty value. The places the known facts carry.
UsablePlace(place) ==
    /\ IsDict(place)
    /\ TextOf(Get(place, K_kind)) \in PLACE_KINDS
    /\ TextOf(Get(place, K_value)) # <<>>
KnownPlaces == _normalize_known_field_list(Get(payload.known_fields, K_places))

\* C27: the place of each tuple of an answer of the generator is the
\* generated place (kind and trimmed value) when its kind is stop, street or
\* crossroad and its value is not empty; otherwise it is the first known
\* place with the kind stop when the known facts carry a place, and there is
\* no place when they carry none.
C27_PlaceKeptOrKnown ==
    GeneratorAnswered =>
        \A items \in {GeneratedTuples(Generated)} :
            /\ Len(Tuples) = Len(items)
            /\ \A i \in 1..Len(items) :
                  Get(Tuples[i], K_place) =
                      IF UsablePlace(Get(items[i], K_place))
                      THEN Dict(<<K_kind, K_value>>,
                                <<Str(TextOf(Get(Get(items[i], K_place), K_kind))),
                                  Str(TextOf(Get(Get(items[i], K_place), K_value)))>>)
                      ELSE IF KnownPlaces # <<>>
                      THEN Dict(<<K_kind, K_value>>, <<Str(S_stop), Str(KnownPlaces[1])>>)
                      ELSE Null

\* The generated place has the kind "city" and the known facts carry the
\* places "  ", "Астана", "Абая": the place of the tuple is the stop Астана.
C27_Witness ==
    /\ GeneratorAnswered
    /\ Len(Tuples) = 1
    /\ \E generated \in {Generated} :
          \E items \in {GeneratedTuples(generated)} :
              Len(items) >= 1 /\ Get(Get(items[1], K_place), K_kind) = Str(V_city)
    /\ Len(KnownPlaces) = 2
    /\ Get(Tuples[1], K_place) = Dict(<<K_kind, K_value>>, <<Str(S_stop), Str(V_astana)>>)

\* The non-empty str elements of the list a generated object gives under a
\* key of extracted_fields, trimmed and in order; none when extracted_fields
\* is not an object or the value is not a list.
ExtractedStrings(generated, key) ==
    LET raw == Get(generated, K_extracted_fields)
        items == IF IsDict(raw) /\ IsList(Get(raw, key)) THEN Get(raw, key).items ELSE <<>>
        kept == SelectSeq(items, LAMBDA item : IsStr(item) /\ Strip(item.s) # <<>>)
    IN [i \in 1..Len(kept) |-> Str(Strip(kept[i].s))]

\* C28: in an answer of the generator each of route_numbers, bus_plates and
\* places of extracted_fields holds exactly the non-empty str elements of the
\* generated list, in order; elements that are not a str are dropped and a
\* value that is not a list gives the empty list.
C28_OnlyStringsExtracted ==
    GeneratorAnswered =>
        \A generated \in {Generated} :
            \A key \in {K_route_numbers, K_bus_plates, K_places} :
                Get(Get(response, K_extracted_fields), key).items
                    = ExtractedStrings(generated, key)

\* The six keyword groups in the order of their checks, which is the order
\* of the first six aspect names; the groups with a keyword in the
\* lower-cased description; the aspect list they give.
AspectGroups ==
    <<punctuality_words, crowding_words, safety_words, staff_words, condition_words,
      payment_words>>
MatchedGroups ==
    {i \in 1..Len(AspectGroups) : AnyIn(AspectGroups[i], Lower(Strip(payload.description)))}
MatchedAspects ==
    IF MatchedGroups = {} THEN <<S_other>>
    ELSE SelectSeq(SubSeq(ASPECT_NAMES, 1, Len(AspectGroups)),
                   LAMBDA name : \E i \in MatchedGroups : ASPECT_NAMES[i] = name)
CountOf(name) == Get(Get(response, K_aspects_count), name)
RECURSIVE SumCounts(_)
SumCounts(names) ==
    IF names = <<>> THEN 0 ELSE CountOf(Head(names)).n + SumCounts(Tail(names))

\* C29: in a fallback answer the counter of each of the six groups is 1 if
\* one of its keywords occurs in the lower-cased description and 0
\* otherwise; other is 1 exactly when the six are 0 and is 0 otherwise; the
\* aspect list of the tuple is [other] in that case and every matched group
\* otherwise; the counters sum to the length of the aspect list.
C29_FallbackAspects ==
    FallbackAnswered =>
        /\ \A i \in 1..Len(AspectGroups) :
              CountOf(ASPECT_NAMES[i]) = Num(IF i \in MatchedGroups THEN 1 ELSE 0)
        /\ CountOf(S_other) = Num(IF MatchedGroups = {} THEN 1 ELSE 0)
        /\ \A i \in 1..Len(Tuples) : Get(Tuples[i], K_aspects) = StrList(MatchedAspects)
        /\ SumCounts(ASPECT_NAMES) = Len(MatchedAspects)

\* "АВАРИЯ: автобус опоздал" with a known route: the tuple has the aspects
\* punctuality and safety, each counted once, and other is 0.
C29_Witness ==
    /\ FallbackAnswered
    /\ payload.description = D_both
    /\ Len(Tuples) = 1
    /\ Get(Tuples[1], K_aspects) = StrList(<<S_punctuality, S_safety>>)
    /\ CountOf(S_punctuality) = Num(1)
    /\ CountOf(S_safety) = Num(1)
    /\ CountOf(S_other) = Num(0)
    /\ SumCounts(ASPECT_NAMES) = 2

\* The static recommendation of a priority in Kazakh and in Russian, and the
\* priority an answer must have for the priority a generated object gives:
\* that one, trimmed, when it is one of the four values, medium otherwise.
RecommendationKk(priority) ==
    IF priority = S_critical THEN R_critical_kk
    ELSE IF priority = S_high THEN R_high_kk
    ELSE IF priority = S_medium THEN R_medium_kk
    ELSE R_low_kk
RecommendationRu(priority) ==
    IF priority = S_critical THEN R_critical_ru
    ELSE IF priority = S_high THEN R_high_ru
    ELSE IF priority = S_medium THEN R_medium_ru
    ELSE R_low_ru
FinalPriority(generated) ==
    IF InSeq(TextOf(Get(generated, K_priority)), PRIORITY_VALUES)
    THEN TextOf(Get(generated, K_priority))
    ELSE S_medium

\* C30: in every answer both recommendations are non-empty texts; in an
\* answer of the generator the priority is the generated one when it is one
\* of the four values and medium otherwise, and a recommendation the
\* generator left absent or blank is the static text of that priority; in a
\* fallback answer both are the static texts of the answer's priority.
C30_RecommendationsFilled ==
    /\ Returned =>
          /\ IsStr(Get(response, K_recommendation_kk))
          /\ Get(response, K_recommendation_kk).s # <<>>
          /\ IsStr(Get(response, K_recommendation_ru))
          /\ Get(response, K_recommendation_ru).s # <<>>
    /\ GeneratorAnswered =>
          \A generated \in {Generated} :
              /\ Get(response, K_priority) = Str(FinalPriority(generated))
              /\ TextOf(Get(generated, K_recommendation_kk)) = <<>> =>
                    Get(response, K_recommendation_kk)
                        = Str(RecommendationKk(FinalPriority(generated)))
              /\ TextOf(Get(generated, K_recommendation_ru)) = <<>> =>
                    Get(response, K_recommendation_ru)
                        = Str(RecommendationRu(FinalPriority(generated)))
    /\ FallbackAnswered =>
          /\ Get(response, K_recommendation_kk)
                = Str(RecommendationKk(Get(response, K_priority).s))
          /\ Get(response, K_recommendation_ru)
                = Str(RecommendationRu(Get(response, K_priority).s))

\* The generator wrote the priority "URGENT", the recommendation 5 in Kazakh
\* and none in Russian: the answer has medium, "5" and the Russian text of
\* medium.
C30_Witness ==
    /\ GeneratorAnswered
    /\ Get(Generated, K_priority) = Str(V_URGENT)
    /\ Get(Generated, K_recommendation_kk) = Num(5)
    /\ ~HasKey(Generated, K_recommendation_ru)
    /\ Get(response, K_priority) = Str(S_medium)
    /\ Get(response, K_recommendation_kk) = Str(<<53>>)
    /\ Get(response, K_recommendation_ru) = Str(R_medium_ru)

\* ------------------------------------------------------------ extraction

\* _extract_json on its own: every text of at most MaxText characters out of
\* "{", "}", "x" and " ", and an object alone, after a text and before a
\* text that holds a "}".
MaxText == 4
ExtractChars == {123, 125, 120, 32}
ExtractTexts ==
    SeqsUpTo(ExtractChars, MaxText)
    \cup {JsonText(Dict(<<K_priority>>, <<Str(S_high)>>)),
          V_prefix \o JsonText(Dict(<<K_priority>>, <<Str(S_high)>>)),
          FollowedOutput, V_no_json}

\* Either a request is followed from its arrival, or one text is handed to
\* _extract_json.
ExtractInit ==
    \/ LiveInit
    \/ /\ output_text \in ExtractTexts
       /\ extraction = NotExtracted
       /\ LLM_DISABLED = FALSE
       /\ payload = AnalyzeRequest(<<>>, EmptyDict, Null)
       /\ pc = "idle"
       /\ messages = <<>>
       /\ retry_messages = <<>>
       /\ raw_output = <<>>
       /\ retry_output = <<>>
       /\ calls = <<>>
       /\ log = <<>>
       /\ response = Null
       /\ status = "pending"
       /\ threads = <<>>
       /\ in_flight = {}
       /\ NotLoaded
       /\ NoSession

Extract ==
    /\ pc = "idle"
    /\ extraction = NotExtracted
    /\ extraction' = _extract_json(output_text)
    /\ UNCHANGED <<payload, LLM_DISABLED, pc, messages, retry_messages, raw_output,
                   retry_output, calls, log, response, status, threads, in_flight,
                   engine, loading, loads, output_text, session, running, chat>>

ExtractNext == Extract \/ Next
ExtractSpec == ExtractInit /\ [][ExtractNext]_vars

\* The places of the first "{" and of the last "}" of a text (0 for none),
\* and the text between them, both included.
FirstOpen(text) ==
    IF \E i \in 1..Len(text) : text[i] = 123
    THEN CHOOSE i \in 1..Len(text) : text[i] = 123 /\ \A j \in 1..(i - 1) : text[j] # 123
    ELSE 0
LastClose(text) ==
    IF \E i \in 1..Len(text) : text[i] = 125
    THEN CHOOSE i \in 1..Len(text) : text[i] = 125 /\ \A j \in (i + 1)..Len(text) : text[j] # 125
    ELSE 0
Braced(text) == SubSeq(text, FirstOpen(text), LastClose(text))
HasBraces(text) ==
    FirstOpen(text) # 0 /\ LastClose(text) # 0 /\ FirstOpen(text) < LastClose(text)
\* A text of "{", "}", "x" and " " is a JSON object only as "{", blanks, "}".
OnlyBlanksInside(braced) == \A i \in 2..(Len(braced) - 1) : braced[i] = 32
OverExtractChars(text) == \A i \in 1..Len(text) : text[i] \in ExtractChars
ExtractedAsClaimed(text, result) ==
    /\ result.ok <=> (HasBraces(text) /\ JsonLoads(Braced(text)).ok)
    /\ result.ok => result.v = JsonLoads(Braced(text)).v
    /\ OverExtractChars(text) =>
          /\ result.ok <=> (HasBraces(text) /\ OnlyBlanksInside(Braced(text)))
          /\ result.ok => result.v = EmptyDict

\* C31: _extract_json fails exactly when the text has no "{", has no "}",
\* has its first "{" not before its last "}", or the text from the first "{"
\* to the last "}" is not well-formed JSON, and returns the object parsed
\* from that text otherwise; a first generator output that is an object
\* followed by further text with a "}" is not extracted, is not answered
\* with, and the retry transcript is built.
C31_ExtractFailsExactly ==
    /\ extraction # NotExtracted => ExtractedAsClaimed(output_text, extraction)
    /\ FirstReturned =>
          \A parsed \in {FirstParsed} :
              /\ ExtractedAsClaimed(raw_output, parsed)
              /\ ~parsed.ok => retry_messages # <<>> /\ Len(calls) <= 2
              /\ (~parsed.ok /\ pc = "done" /\ status = "200") =>
                    (Len(calls) = 2 \/ FallbackRan)
              /\ raw_output = FollowedOutput => ~parsed.ok

\* The first generation returned the object followed by " ok }": the
\* extraction failed and the second generation call was made with the retry
\* transcript.
C31_Witness ==
    /\ raw_output = FollowedOutput
    /\ ~_extract_json(raw_output).ok
    /\ JsonLoads(SubSeq(raw_output, 1, Len(raw_output) - Len(V_tail))).ok
    /\ Len(calls) = 2
    /\ calls[2] = retry_messages
    /\ retry_messages # <<>>

\* The request as the user turn of a transcript encodes it.
EncodedRequest ==
    Dict(<<K_complaint, K_known_fields, K_submission_time_iso>>,
         <<Str(payload.description), payload.known_fields, payload.submission_time_iso>>)

\* C32: the first transcript is the system instruction and one user turn
\* whose text decodes to the request; the retry transcript is the first
\* transcript followed by an assistant turn with the first raw output as it
\* was returned and one corrective user turn; the generation calls are made
\* with these two transcripts, so the request turn is the same in both.
C32_TranscriptsExtend ==
    /\ messages # <<>> =>
          /\ Len(messages) = 2
          /\ messages[1] = Turn("system", "system", <<>>)
          /\ messages[2].role = "user"
          /\ \A decoded \in {JsonLoads(messages[2].content)} :
                decoded.ok /\ decoded.v = EncodedRequest
    /\ calls # <<>> => calls[1] = messages
    /\ retry_messages # <<>> =>
          /\ Len(retry_messages) = 4
          /\ SubSeq(retry_messages, 1, 2) = messages
          /\ retry_messages[3] = Turn("assistant", "", raw_output)
          /\ retry_messages[4] = Turn("user", "retry", <<>>)
    /\ Len(calls) <= 2
    /\ Len(calls) = 2 =>
          /\ calls[2] = retry_messages
          /\ calls[2][2] = calls[1][2]

\* The first output was the object followed by " ok }" for a request with a
\* known reported_time: the second call was made with four turns, the third
\* of them that output.
C32_Witness ==
    /\ Len(calls) = 2
    /\ payload.known_fields = Dict(<<K_reported_time>>, <<Str(V_0830)>>)
    /\ raw_output = FollowedOutput
    /\ Len(calls[2]) = 4
    /\ calls[2][3].content = FollowedOutput
    /\ calls[2][2] = messages[2]

\* C33: the body of the loader of the engine is entered at most once in a
\* process, whatever the number of requests and however their threads
\* interleave.
C33_LoadedAtMostOnce == loads <= 1

\* C36: in an answer of the generator to a request whose submission
\* timestamp is not empty once trimmed, each tuple whose generated time is
\* absent or blank has that timestamp as its time, and when there is such a
\* tuple reported_time is not in missing_slots, declared by the generator or
\* not.
C36_TimestampMeetsTime ==
    (GeneratorAnswered /\ TextOf(payload.submission_time_iso) # <<>>) =>
        \A items \in {GeneratedTuples(Generated)} :
            /\ Len(Tuples) = Len(items)
            /\ \A i \in 1..Len(items) :
                  TextOf(Get(items[i], K_time)) = <<>> =>
                      /\ Get(Tuples[i], K_time) = Str(TextOf(payload.submission_time_iso))
                      /\ ~Declares(K_reported_time)

\* The generator declared reported_time and gave one tuple with no time, the
\* request has the timestamp 2025-01-01T08:00:00+05:00 and no known facts:
\* the tuple has the timestamp and reported_time is not asked for.
C36_Witness ==
    /\ GeneratorAnswered
    /\ payload.submission_time_iso = Str(V_iso)
    /\ payload.known_fields = EmptyDict
    /\ \E generated \in {Generated} :
          /\ DeclaredIn(generated) = <<K_reported_time>>
          /\ \E items \in {GeneratedTuples(generated)} :
                Len(items) = 1 /\ ~HasKey(items[1], K_time)
    /\ Len(Tuples) = 1
    /\ Get(Tuples[1], K_time) = Str(V_iso)
    /\ ~Declares(K_reported_time)
    /\ Declares(K_places)

\* The objects of the tuples of an answer, and whether the known facts give
\* a route number.
AnswerObjects ==
    UNION {Range(Get(Tuples[i], K_objects).items) : i \in 1..Len(Tuples)}
NoRouteAnywhere ==
    /\ \A obj \in AnswerObjects : Get(obj, K_type) # Str(S_route)
    /\ \/ ~HasKey(payload.known_fields, K_route_numbers)
       \/ _normalize_known_field_list(Get(payload.known_fields, K_route_numbers)) = <<>>
    /\ ExtractedRoutes = List(<<>>)
PlateSomewhere ==
    \/ \E obj \in AnswerObjects : Get(obj, K_type) = Str(S_bus_plate)
    \/ Get(Get(response, K_extracted_fields), K_bus_plates) # List(<<>>)

K_needClarification ==
    <<110, 101, 101, 100, 67, 108, 97, 114, 105, 102, 105, 99, 97, 116, 105, 111, 110>>
\* "missingSlots"
K_missingSlots == <<109, 105, 115, 115, 105, 110, 103, 83, 108, 111, 116, 115>>
\* "knownFields"
K_knownFields == <<107, 110, 111, 119, 110, 70, 105, 101, 108, 100, 115>>
\* "description"
K_description == <<100, 101, 115, 99, 114, 105, 112, 116, 105, 111, 110>>
\* "submissionTime"
K_submissionTime == <<115, 117, 98, 109, 105, 115, 115, 105, 111, 110, 84, 105, 109, 101>>
\* "analysis"
K_analysis == <<97, 110, 97, 108, 121, 115, 105, 115>>
\* "media"
K_media == <<109, 101, 100, 105, 97>>
\* "media-1"
V_media == <<109, 101, 100, 105, 97, 45, 49>>

\* Bounds of one chat: the previews whose buttons are kept track of, the
\* files a user attaches to one complaint, the clarification answers a user
\* sends to one complaint, and the handlers of one chat that may be
\* suspended at the same time when updates are not handled one by one.
MaxPreviews == 1
MaxMedia == 1
MaxAnswers == 3
MaxHandlers == 2

\* What a step of the bot leaves alone.
outside_chat ==
    <<payload, LLM_DISABLED, pc, messages, retry_messages, raw_output, retry_output, calls,
      log, response, status, threads, in_flight, engine, loading, loads, output_text,
      extraction>>

\* What the user writes, as message.text.strip() leaves it: Telegram
\* delivers no blank text message.
UserTexts == {D_plain, D_late, V_12, V_abaya}
FewTexts == {D_plain, V_12}
OneText == {D_plain}
Languages == {"kk", "ru"}
\* callback_data of the two buttons under a preview.
Decisions == {"decision:send", "decision:cancel"}

\* datetime.now(timezone.utc).isoformat(): one reading of the clock.
NowIso == Str(V_iso)

\* reset_session: everything but the language is put back.
\* A faulty reset: the attached files stay.
ResetKeepsMedia(s) == [SessionState(s.language) EXCEPT !.media = s.media]

reset_session(s) == SessionState(s.language)

\* combine_clarification(existing, addition) of two values; addition is a
\* str.
combine_clarification(existing, addition) ==
    IF Strip(addition.s) = <<>> THEN Or(existing, Str(<<>>))
    ELSE IF ~Truthy(existing) THEN Str(Strip(addition.s))
    ELSE IF IsStr(existing) /\ Contains(existing.s, Strip(addition.s)) THEN existing
    ELSE Str(PyStr(existing) \o <<10>> \o Strip(addition.s))

\* The JSON body run_analysis posts to /api/analyze.
AnalyzePayload(s) ==
    Dict(<<K_description, K_knownFields, K_submission_time_iso>>,
         <<s.description, s.known_fields, s.submission_time>>)

\* normalize_analysis: the keys the handlers read; the other keys of the
\* answer are copied in the same way and only shown.
normalize_analysis(data) ==
    Dict(<<K_needClarification, K_missingSlots, K_priority, K_tuples>>,
         <<IF HasKey(data, K_need_clarification) THEN Get(data, K_need_clarification)
                                                ELSE Bool(FALSE),
           Or(Get(data, K_missing_slots), List(<<>>)),
           IF HasKey(data, K_priority) THEN Get(data, K_priority) ELSE Str(S_medium),
           Or(Get(data, K_tuples), List(<<>>))>>)

\* serialize_analysis, over the same keys.
serialize_analysis(analysis) ==
    Dict(<<K_need_clarification, K_missing_slots, K_priority, K_tuples>>,
         <<Get(analysis, K_needClarification), Get(analysis, K_missingSlots),
           Get(analysis, K_priority), Get(analysis, K_tuples)>>)

\* The JSON body finalize_submission posts to /api/submit.
SubmitPayload(s) ==
    Dict(<<K_description, K_priority, K_tuples, K_analysis, K_media, K_submissionTime>>,
         <<s.description, Get(s.analysis, K_priority),
           Or(Get(s.analysis, K_tuples), List(<<>>)), serialize_analysis(s.analysis),
           StrList(s.media), s.submission_time>>)

\* A handler suspended in a call of the backend. branch tells which part of
\* its handler goes on when the call returns.
Awaiting(path, branch, body) == [awaits |-> path, branch |-> branch, request |-> body]

\* running without its i-th handler.
Resumed(i) == SubSeq(running, 1, i - 1) \o SubSeq(running, i + 1, Len(running))

\* An analysis asks for a clarification, as run_analysis tests it.
RequiresClarification(analysis) ==
    Truthy(Get(analysis, K_needClarification)) /\ Truthy(Get(analysis, K_missingSlots))

\* handle_text in stage description, up to the call of the backend inside
\* run_analysis.
DescriptionTaken(s, text) ==
    [s EXCEPT !.description = Str(text), !.submission_time = NowIso,
              !.stage = "clarification", !.known_fields = EmptyDict,
              !.clarifications = EmptyDict, !.pending_slot = Null]

\* handle_text in stage clarification: the slot the text answers.
AnsweredSlot(s) == Or(s.pending_slot, s.last_answer_slot)

\* handle_text in stage clarification, the answer stored under its slot.
\* A faulty store: the answer is kept for the record and not sent along.
AnswerOnlyRecorded(s, slot, combined_value) ==
    [s EXCEPT !.clarifications = Put(s.clarifications, slot.s, combined_value),
              !.last_answer_slot = slot]

AnswerStored(s, slot, combined_value) ==
    [s EXCEPT !.known_fields = Put(s.known_fields, slot.s, combined_value),
              !.clarifications = Put(s.clarifications, slot.s, combined_value),
              !.last_answer_slot = slot]

\* handle_text: a text message of the user. A preview still open is dropped
\* with its session first; a first text is the description and is analysed;
\* a later text answers the slot asked for, and is only stored when an
\* analysis of an earlier answer is still awaited.
handle_text(limit, text) ==
    /\ Len(running) < limit
    /\ \E s \in {IF session.stage = "confirmation" THEN reset_session(session) ELSE session} :
         IF s.stage = "description"
         THEN /\ session' = DescriptionTaken(s, text)
              /\ running' = Append(running,
                                   Awaiting("/api/analyze", "description",
                                            AnalyzePayload(DescriptionTaken(s, text))))
              /\ chat' = [chat EXCEPT !.answers = 0]
         ELSE IF ~Truthy(AnsweredSlot(s))
         THEN /\ session' = [s EXCEPT !.stage = "description"]
              /\ UNCHANGED <<running, chat>>
         ELSE /\ chat.answers < MaxAnswers
              /\ chat' = [chat EXCEPT !.answers = @ + 1]
              /\ \E stored \in {AnswerStored(s, AnsweredSlot(s),
                                            combine_clarification(
                                                Get(s.known_fields, AnsweredSlot(s).s),
                                                Str(text)))} :
                   IF s.reanalysis_in_progress
                   THEN /\ session' = stored
                        /\ UNCHANGED running
                   ELSE /\ session' = [stored EXCEPT !.reanalysis_in_progress = TRUE]
                        /\ running' = Append(running,
                                             Awaiting("/api/analyze", "clarification",
                                                      AnalyzePayload(stored)))
    /\ UNCHANGED outside_chat

\* run_analysis from the answer of the backend on: outcome.ok is FALSE for a
\* BackendError or another exception of request_json, outcome.v is the
\* decoded body otherwise. A preview is shown in the second case.
AnalysisTaken(s, outcome) ==
    IF ~outcome.ok \/ ~IsDict(outcome.v)
    THEN [s EXCEPT !.stage = "description"]
    ELSE IF RequiresClarification(normalize_analysis(outcome.v))
    THEN [s EXCEPT !.analysis = normalize_analysis(outcome.v),
                   !.pending_slot = Get(normalize_analysis(outcome.v), K_missingSlots).items[1],
                   !.stage = "clarification"]
    ELSE [s EXCEPT !.analysis = normalize_analysis(outcome.v), !.stage = "confirmation"]

\* handle_text in stage clarification after run_analysis: the finally clause
\* and the lines that follow it.
AfterReanalysis(s) ==
    IF s.stage # "clarification"
    THEN [s EXCEPT !.reanalysis_in_progress = FALSE, !.pending_slot = Null,
                   !.last_answer_slot = Null]
    ELSE [s EXCEPT !.reanalysis_in_progress = FALSE, !.last_answer_slot = s.pending_slot]

\* show_preview was reached by run_analysis: one more message with the two
\* decision buttons, counted up to MaxPreviews.
PreviewShown(s, outcome) ==
    /\ outcome.ok
    /\ IsDict(outcome.v)
    /\ ~RequiresClarification(normalize_analysis(outcome.v))

\* The answers of POST /api/analyze the bot is ready for: an error, a body
\* that is no object, and objects with and without the two keys that steer
\* the dialogue, consistent or not.
AnyAnalysis(body) ==
    {[ok |-> FALSE, v |-> Null], [ok |-> TRUE, v |-> List(<<>>)], [ok |-> TRUE, v |-> EmptyDict],
     [ok |-> TRUE,
      v |-> Dict(<<K_need_clarification, K_missing_slots>>,
                 <<Bool(FALSE), StrList(<<K_route_numbers>>)>>)]}
    \cup {[ok |-> TRUE,
           v |-> Dict(<<K_need_clarification, K_missing_slots>>, <<Bool(TRUE), missing>>)] :
          missing \in {List(<<>>), StrList(<<K_route_numbers>>),
                       StrList(<<K_places, K_reported_time>>)}}

\* AnalyzeRequest parsed from the body of the bot: known_fields is read
\* under its alias knownFields.
ParsedRequest(body) ==
    AnalyzeRequest(Get(body, K_description).s, Get(body, K_knownFields),
                   Get(body, K_submission_time_iso))

\* The one answer of a backend that hands the request of the bot to the
\* analysis service, on its fallback path, and the answer back.
FallbackAnalysis(body) == {_fallback_analysis(ParsedRequest(body))}

\* request_json of run_analysis returns to the i-th suspended handler, which
\* runs to its end.
AnalyzeReturns(i, outcome) ==
    /\ running[i].awaits = "/api/analyze"
    /\ session' = IF running[i].branch = "clarification"
                  THEN AfterReanalysis(AnalysisTaken(session, outcome))
                  ELSE AnalysisTaken(session, outcome)
    /\ running' = Resumed(i)
    /\ chat' = IF PreviewShown(session, outcome) /\ chat.previews < MaxPreviews
               THEN [chat EXCEPT !.previews = @ + 1]
               ELSE chat
    /\ UNCHANGED outside_chat

\* handle_decision: a button of a preview is pressed and the preview loses
\* its buttons. "decision:send" goes to finalize_submission, which posts
\* the complaint when the session holds an analysis and a description;
\* "decision:cancel" resets the session.
handle_decision(limit, data) ==
    /\ Len(running) < limit
    /\ chat.previews > 0
    /\ chat' = [chat EXCEPT !.previews = @ - 1]
    /\ IF data = "decision:send"
       THEN IF ~Truthy(session.analysis) \/ ~Truthy(session.description)
            THEN UNCHANGED <<session, running>>
            ELSE /\ running' = Append(running,
                                      Awaiting("/api/submit", "send", SubmitPayload(session)))
                 /\ UNCHANGED session
       ELSE /\ session' = reset_session(session)
            /\ UNCHANGED running
    /\ UNCHANGED outside_chat

\* What POST /api/submit may come to: a reference number, an error, a body
\* that is no object.
SubmitOutcomes == {"200", "error", "no object"}

\* finalize_submission from the answer of the backend on: the session is
\* reset whatever the answer.
SubmitReturns(i, outcome) ==
    /\ running[i].awaits = "/api/submit"
    /\ session' = reset_session(session)
    /\ running' = Resumed(i)
    /\ UNCHANGED <<chat, outside_chat>>

\* cmd_start
cmd_start(limit) ==
    /\ Len(running) < limit
    /\ session' = reset_session(session)
    /\ UNCHANGED <<running, chat, outside_chat>>

\* handle_language_callback and apply_language: a button of /lang.
handle_language_callback(limit, language) ==
    /\ Len(running) < limit
    /\ session' = [session EXCEPT !.language = language]
    /\ UNCHANGED <<running, chat, outside_chat>>

\* handle_media up to upload_media: the file is fetched and posted.
handle_media(limit) ==
    /\ Len(running) < limit
    /\ Len(session.media) < MaxMedia
    /\ running' = Append(running, Awaiting("/api/media/upload", "media", Str(V_media)))
    /\ UNCHANGED <<session, chat, outside_chat>>

\* handle_media from the answer of upload_media on: the uploaded file is
\* added to the session, a failed upload is only reported.
UploadReturns(i, uploaded) ==
    /\ running[i].awaits = "/api/media/upload"
    /\ session' = IF uploaded /\ Len(session.media) < MaxMedia
                  THEN [session EXCEPT !.media = Append(@, V_media)]
                  ELSE session
    /\ running' = Resumed(i)
    /\ UNCHANGED <<chat, outside_chat>>

\* The service is not followed while the bot is: its variables rest.
BotInit ==
    /\ NoSession
    /\ NoExtraction
    /\ NotLoaded
    /\ LLM_DISABLED = FALSE
    /\ payload = AnalyzeRequest(<<>>, EmptyDict, Null)
    /\ pc = "idle"
    /\ messages = <<>>
    /\ retry_messages = <<>>
    /\ raw_output = <<>>
    /\ retry_output = <<>>
    /\ calls = <<>>
    /\ log = <<>>
    /\ response = Null
    /\ status = "pending"
    /\ threads = <<>>
    /\ in_flight = {}

\* The updates of one chat and the answers of the backend. limit is the
\* number of handlers that may be under way at once; service tells what
\* answers POST /api/analyze: "fallback" for the fallback path of the
\* analysis service, "any" for any backend; texts are the text messages the
\* user may send.
Answers(service, body) ==
    IF service = "fallback" THEN FallbackAnalysis(body) ELSE AnyAnalysis(body)

Updates(limit, service, texts) ==
    \/ \E text \in texts : handle_text(limit, text)
    \/ \E i \in 1..Len(running) :
         \E outcome \in Answers(service, running[i].request) : AnalyzeReturns(i, outcome)
    \/ \E data \in Decisions : handle_decision(limit, data)
    \/ \E i \in 1..Len(running) : \E outcome \in SubmitOutcomes : SubmitReturns(i, outcome)
    \/ cmd_start(limit)
    \/ \E language \in Languages : handle_language_callback(limit, language)
    \/ handle_media(limit)
    \/ \E i \in 1..Len(running) : \E uploaded \in BOOLEAN : UploadReturns(i, uploaded)

\* Application.builder().build() sets no concurrent_updates: an update is
\* handled when the handler of the one before it has returned.
BotNext == Updates(1, "any", FewTexts)
BotSpec == BotInit /\ [][BotNext]_vars

\* The same bot behind a backend whose analysis is the fallback path.
ClarifyNext == Updates(1, "fallback", UserTexts)
ClarifySpec == BotInit /\ [][ClarifyNext]_vars

\* The handlers of one chat interleaved at their calls of the backend, up
\* to MaxHandlers of them under way.
BotConcNext == Updates(MaxHandlers, "any", OneText)
BotConcSpec == BotInit /\ [][BotConcNext]_vars

\* No handler of the chat is under way.
Quiescent == running = <<>>

\* The keys of a dict, as a set.
Keys(d) == Range(d.keys)

\* C34: a complaint is posted to /api/submit only from stage confirmation
\* and with a stored analysis that asks for no clarification.
C34_SubmitOnlyComplete ==
    \A i \in 1..Len(running) :
        running[i].awaits = "/api/submit"
            => /\ session.stage = "confirmation"
               /\ ~RequiresClarification(session.analysis)

\* C39: between handlers, stage confirmation comes with a stored analysis
\* that asks for no clarification and a slot is pending only in stage
\* clarification; a stored analysis comes with a description, so that a send
\* decision on it posts the complaint; and a cancel decision, the end of a
\* submission and /start leave the session as new, in its language.
C39_StageInvariant ==
    /\ [](/\ Quiescent /\ session.stage = "confirmation"
              => IsDict(session.analysis) /\ ~RequiresClarification(session.analysis)
          /\ Quiescent /\ ~IsNone(session.pending_slot) => session.stage = "clarification"
          /\ Quiescent /\ ~IsNone(session.analysis) => Truthy(session.description))
    /\ [][(\/ cmd_start(1)
           \/ handle_decision(1, "decision:cancel")
           \/ \E i \in 1..Len(running) : \E outcome \in SubmitOutcomes :
                SubmitReturns(i, outcome))
          => /\ session'.stage = "description"
             /\ IsNone(session'.description)
             /\ session'.known_fields = EmptyDict
             /\ IsNone(session'.analysis)
             /\ session'.media = <<>>
             /\ session'.language = session.language]_vars

\* A session made new in the language the user chose, after a dialogue in
\* which a clarification was answered and no preview is left in the chat.
C39_Witness ==
    /\ Quiescent
    /\ session = SessionState("ru")
    /\ chat.answers > 0
    /\ chat.previews = 0

\* C35: behind the fallback analysis a question is open in stage
\* clarification and fewer than three answers have been given then, so that
\* the third answer at the latest ends in the preview; no slot that
\* known_fields holds is missing in the stored analysis; and known_fields
\* loses no slot while the dialogue goes on.
C35_BoundedClarification ==
    /\ [](Quiescent /\ session.stage = "clarification"
            => /\ ~IsNone(session.pending_slot)
               /\ chat.answers < 3
               /\ \A slot \in Keys(session.known_fields) :
                      ~InSeq(Str(slot), Get(session.analysis, K_missingSlots).items))
    /\ [](Quiescent /\ session.stage = "confirmation"
            => \A slot \in Keys(session.known_fields) :
                   ~InSeq(Str(slot), Get(session.analysis, K_missingSlots).items))
    /\ [][session.stage = "clarification" /\ session'.stage # "description"
            => Keys(session.known_fields) \subseteq Keys(session'.known_fields)]_vars

\* The preview reached after two answers, to the route and to the place.
C35_Witness ==
    /\ Quiescent
    /\ session.stage = "confirmation"
    /\ chat.answers = 2
    /\ Keys(session.known_fields) = {K_route_numbers, K_places}

====
